---------------------------- MODULE Spec2Model ----------------------------
(***************************************************************************)
(* Model of the signal filtering demo: the matrix utilities, the low-pass  *)
(* filter, the linear Kalman filter and the unscented Kalman filter of     *)
(* src/services/filterService.ts, driven by a caller that threads the      *)
(* returned filter state into the next call.                               *)
(*                                                                         *)
(* Numbers.  A JavaScript number is modelled by a triple <<a, b, d>>.      *)
(* With d > 0 it is the exactly tracked value (a + b*sqrt(5)) / d, kept    *)
(* in lowest terms (sqrt(5) is there because sqrt(n + lambda) =            *)
(* sqrt(1/2000) = sqrt(5)/100 scales every sigma point of the UKF).        *)
(* With d = 0 it is one of the values NaN, PInf, NInf of IEEE arithmetic   *)
(* or one of two untracked values: Fin, a finite double whose value the    *)
(* model does not follow (an irrational result of Math.sqrt, Math.sin,     *)
(* Math.cos or Math.atan2), and Top, a double about which nothing is       *)
(* known.  Rounding, overflow to Infinity and the sign of zero are not     *)
(* modelled: tracked arithmetic is exact.                                  *)
(*                                                                         *)
(* Objects.  A matrix is a JavaScript array object: two filter states can  *)
(* hold the same array, and a write through one is seen through the        *)
(* other.  Each filter has a heap, a function from addresses to matrices,  *)
(* and a filter state holds addresses.                                     *)
(***************************************************************************)
EXTENDS Integers, Sequences, FiniteSets, TLC

\* ------------------------------------------------------------------ bounds

\* Calls of apply on one low-pass filter before it is recreated.
MaxLowPassCalls == 3

\* The largest entry of the 2x2 matrices the matrix utilities are applied to:
\* their entries range over -1 .. MaxEntry.
MaxEntry == 2

\* Largest value of the millisecond clock.
MaxClock == 45

\* Calls of applyKalmanFilter on one Kalman filter before it is recreated.
MaxKalmanCalls == 3

\* Calls of applyUKF on one UKF before it is recreated.
MaxUKFCalls == 3

\* Animation frames the app's loop receives.
MaxFrames == 2

\* Settings changes the user makes in the app.
MaxChanges == 1

\* Calls of applyKalmanFilter with one measurement, a target that stands still.
MaxTrackCalls == 10

\* Calls of updateErrorGraph with a known actual position.
MaxGraphCalls == 201

\* ----------------------------------------------------------------- numbers

NaN  == <<0, 0, 0>>
PInf == <<1, 0, 0>>
NInf == <<-1, 0, 0>>
Fin  == <<2, 0, 0>>
Top  == <<3, 0, 0>>

Tracked(x) == x[3] > 0

RECURSIVE Gcd(_, _)
Gcd(m, n) == IF n = 0 THEN m ELSE Gcd(n, m % n)

AbsInt(n) == IF n < 0 THEN -n ELSE n

\* a, b and d divided by their signed common divisor s.
Reduce(a, b, d, s) == <<a \div s, b \div s, d \div s>>

\* (a + b*sqrt(5)) / d for integers a, b and d # 0, in lowest terms, d > 0.
Norm(a, b, d) ==
    Reduce(a, b, d, (IF d < 0 THEN -1 ELSE 1) * Gcd(Gcd(AbsInt(a), AbsInt(b)), AbsInt(d)))

Rat(n, d) == Norm(n, 0, d)
Whole(n)  == <<n, 0, 1>>
Zero      == <<0, 0, 1>>
One       == <<1, 0, 1>>

RECURSIVE CompareSurd(_, _)
\* The sign of a - b*sqrt(5) for b > 0, by the continued fraction of sqrt(5):
\* no product is formed, so no integer outgrows the model.
CompareSurd(a, b) ==
    IF a <= 0 \/ a \div b < 2 \/ (a \div b = 2 /\ a % b = 0) THEN -1
    ELSE IF a \div b >= 3 THEN 1
    ELSE -CompareSurd(b - (a % b) - (a % b), a % b)

\* The sign (-1, 0, 1) of a + b*sqrt(5).
SignSurd(a, b) ==
    IF a >= 0 /\ b >= 0 THEN (IF a = 0 /\ b = 0 THEN 0 ELSE 1)
    ELSE IF a <= 0 /\ b <= 0 THEN -1
    ELSE IF a > 0 THEN CompareSurd(a, -b)
    ELSE -CompareSurd(-a, b)

\* The sign of a tracked number, of PInf (1) and of NInf (-1).
Sign(x) == IF Tracked(x) THEN SignSurd(x[1], x[2]) ELSE x[1]

IsInf(x) == x = PInf \/ x = NInf
InfOf(s) == IF s > 0 THEN PInf ELSE NInf

Neg(x) ==
    IF Tracked(x) THEN <<-x[1], -x[2], x[3]>>
    ELSE IF x = PInf THEN NInf
    ELSE IF x = NInf THEN PInf
    ELSE x

\* The model follows a value only while the integers of its triple can be
\* combined without outgrowing the model's integers; the result of an
\* operation that would outgrow them is Fin.  Fits: |m * n| <= limit.
Fits(m, n, limit) == m = 0 \/ n = 0 \/ AbsInt(m) <= limit \div AbsInt(n)

\* x + y of IEEE arithmetic.
Add(x, y) ==
    IF Tracked(x) /\ Tracked(y)
    THEN IF x = Zero THEN y
         ELSE IF y = Zero THEN x
         ELSE IF /\ Fits(x[1], y[3], 1073741823) /\ Fits(y[1], x[3], 1073741823)
                 /\ Fits(x[2], y[3], 1073741823) /\ Fits(y[2], x[3], 1073741823)
                 /\ Fits(x[3], y[3], 1073741823)
         THEN Norm(x[1] * y[3] + y[1] * x[3], x[2] * y[3] + y[2] * x[3], x[3] * y[3])
         ELSE Fin
    ELSE IF x = NaN \/ y = NaN THEN NaN
    ELSE IF x = Top \/ y = Top THEN Top
    ELSE IF IsInf(x) /\ IsInf(y) THEN (IF x = y THEN x ELSE NaN)
    ELSE IF IsInf(x) THEN x
    ELSE IF IsInf(y) THEN y
    ELSE Fin

Sub(x, y) == Add(x, Neg(y))

\* x * y of IEEE arithmetic.
Mul(x, y) ==
    IF Tracked(x) /\ Tracked(y)
    THEN IF x = Zero \/ y = Zero THEN Zero
         ELSE IF /\ Fits(x[1], y[1], 1073741823) /\ Fits(x[2], y[2], 214748364)
                 /\ Fits(x[1], y[2], 1073741823) /\ Fits(x[2], y[1], 1073741823)
                 /\ Fits(x[3], y[3], 1073741823)
         THEN Norm(x[1] * y[1] + 5 * x[2] * y[2], x[1] * y[2] + x[2] * y[1], x[3] * y[3])
         ELSE Fin
    ELSE IF x = NaN \/ y = NaN THEN NaN
    ELSE IF x = Top \/ y = Top THEN Top
    ELSE IF x = Zero \/ y = Zero THEN (IF IsInf(x) \/ IsInf(y) THEN NaN ELSE Zero)
    ELSE IF x = Fin \/ y = Fin THEN (IF IsInf(x) \/ IsInf(y) THEN Top ELSE Fin)
    ELSE InfOf(Sign(x) * Sign(y))

\* 1 / y for a tracked y # 0: the conjugate over the norm a*a - 5*b*b.
Recip(y) ==
    IF y[2] = 0 THEN Norm(y[3], 0, y[1])
    ELSE IF /\ Fits(y[1], y[1], 1073741823) /\ Fits(y[2], y[2], 214748364)
            /\ Fits(y[1], y[3], 1073741823) /\ Fits(y[2], y[3], 1073741823)
    THEN Norm(y[1] * y[3], -(y[2] * y[3]), y[1] * y[1] - 5 * y[2] * y[2])
    ELSE Fin

\* x / y of IEEE arithmetic.  nz: the code has tested y # 0 before dividing.
DivBy(x, y, nz) ==
    IF Tracked(x) /\ Tracked(y)
    THEN IF y # Zero THEN Mul(x, Recip(y))
         ELSE IF x = Zero THEN NaN ELSE InfOf(Sign(x))
    ELSE IF x = NaN \/ y = NaN THEN NaN
    ELSE IF x = Top \/ y = Top THEN Top
    ELSE IF IsInf(y) THEN (IF IsInf(x) THEN NaN ELSE Zero)
    ELSE IF IsInf(x)
         THEN IF y = Fin THEN Top
              ELSE InfOf(Sign(x) * (IF y = Zero THEN 1 ELSE Sign(y)))
    ELSE IF y = Fin THEN (IF x = Zero THEN (IF nz THEN Zero ELSE Top)
                          ELSE IF nz THEN Fin ELSE Top)
    ELSE IF y = Zero THEN Top
    ELSE Fin

Div(x, y) == DivBy(x, y, FALSE)

\* The outcomes x > y can have: {TRUE}, {FALSE} or, for an untracked value, both.
GtOutcomes(x, y) ==
    IF x = NaN \/ y = NaN THEN {FALSE}
    ELSE IF x \in {Fin, Top} \/ y \in {Fin, Top} THEN BOOLEAN
    ELSE IF Tracked(x) /\ Tracked(y)
         THEN (IF Tracked(Sub(x, y)) THEN {Sign(Sub(x, y)) > 0} ELSE BOOLEAN)
    ELSE IF x = y THEN {FALSE}
    ELSE {x = PInf \/ y = NInf}

\* The outcomes x === 0 can have.
ZeroOutcomes(x) ==
    IF Tracked(x) THEN {x = Zero}
    ELSE IF x \in {Fin, Top} THEN BOOLEAN
    ELSE {FALSE}

\* The least value that covers both u and v (the two arms of a test the model
\* cannot decide).
Join(u, v) ==
    IF u = v THEN u
    ELSE IF (Tracked(u) \/ u = Fin) /\ (Tracked(v) \/ v = Fin) THEN Fin
    ELSE Top

Finite(x) == Tracked(x) \/ x = Fin


RECURSIVE ISqrtIn(_, _, _)
\* The largest k in lo..hi with k*k <= n (lo*lo <= n).
ISqrtIn(n, lo, hi) ==
    IF lo >= hi THEN lo
    ELSE LET mid == (lo + hi + 1) \div 2
         IN  IF mid <= n \div mid THEN ISqrtIn(n, mid, hi) ELSE ISqrtIn(n, lo, mid - 1)

ISqrt(n) == ISqrtIn(n, 0, IF n < 46340 THEN n ELSE 46340)

IsSquare(n) == n >= 0 /\ ISqrt(n) * ISqrt(n) = n

\* Math.sqrt: exact where the root is rational or a rational multiple of
\* sqrt(5), an untracked finite value elsewhere.
Sqrt(x) ==
    IF Tracked(x)
    THEN IF Sign(x) < 0 THEN NaN
         ELSE IF x[2] # 0 THEN Fin
         ELSE IF IsSquare(x[1]) /\ IsSquare(x[3]) THEN Rat(ISqrt(x[1]), ISqrt(x[3]))
         ELSE LET r == Rat(x[1], 5 * x[3])
              IN  IF IsSquare(r[1]) /\ IsSquare(r[3])
                  THEN Norm(0, ISqrt(r[1]), ISqrt(r[3]))
                  ELSE Fin
    ELSE IF x = NInf THEN NaN
    ELSE IF x = Fin THEN Top
    ELSE x

\* Math.sin and Math.cos: exact at 0, NaN at an infinity, finite everywhere else.
Sin(x) ==
    IF x = Zero THEN Zero
    ELSE IF Finite(x) THEN Fin
    ELSE IF x = Top THEN Top
    ELSE NaN

Cos(x) ==
    IF x = Zero THEN One
    ELSE IF Finite(x) THEN Fin
    ELSE IF x = Top THEN Top
    ELSE NaN

\* Math.atan2(y, x): 0 for y = 0 and x >= 0, a finite angle everywhere else.
Atan2(y, x) ==
    IF x = NaN \/ y = NaN THEN NaN
    ELSE IF x = Top \/ y = Top THEN Top
    ELSE IF y = Zero /\ (x = PInf \/ (Tracked(x) /\ Sign(x) >= 0)) THEN Zero
    ELSE Fin

\* Math.abs.
Abs(x) ==
    IF Tracked(x) THEN (IF Sign(x) < 0 THEN Neg(x) ELSE x)
    ELSE IF x = NInf THEN PInf
    ELSE x

\* ---------------------------------------------------------------- matrices
\* A matrix is a sequence of rows, each a sequence of numbers.

Rows(A) == Len(A)
Cols(A) == Len(A[1])

IncompatibleDimensions == "Matrix dimensions are not compatible for multiplication."
SingularMatrix == "Matrix is singular and cannot be inverted."

RECURSIVE Array(_, _, _)
\* The array <<f[i], ..., f[n]>>, each element evaluated once, as a map() or a
\* loop builds it.
Array(f, i, n) == IF i > n THEN << >> ELSE <<f[i]>> \o Array(f, i + 1, n)

\* The rows x cols array of arrays with the elements f[i][j].
Array2(f, rows, cols) == Array([i \in 1..rows |-> Array(f[i], 1, cols)], 1, rows)

\* The TypeError of JavaScript for B[i][j] when B has no row i.
UndefinedRow == "Cannot read properties of undefined"

\* An element read the way JavaScript reads it: a column past the end of a row
\* is undefined, which arithmetic turns into NaN.
At(B, i, j) == IF j <= Len(B[i]) THEN B[i][j] ELSE NaN

\* mat_add with a test of the dimensions in front, as mat_mul has one.
mat_add_checked(A, B) ==
    IF Len(B) # Len(A) \/ Len(B[1]) # Len(A[1]) THEN UndefinedRow
    ELSE Array([i \in 1..Len(A) |->
                   Array([j \in 1..Len(A[i]) |-> Add(A[i][j], At(B, i, j))], 1, Len(A[i]))],
               1, Len(A))

\* A.map((row, i) => row.map((val, j) => val + B[i][j])): reading B[i][j] in a
\* row B does not have throws.
mat_add(A, B) ==
    IF Len(B) < Len(A) THEN UndefinedRow
    ELSE Array([i \in 1..Len(A) |->
                   Array([j \in 1..Len(A[i]) |-> Add(A[i][j], At(B, i, j))], 1, Len(A[i]))],
               1, Len(A))

\* A.map((row, i) => row.map((val, j) => val - B[i][j]))
mat_sub(A, B) ==
    IF Len(B) < Len(A) THEN UndefinedRow
    ELSE Array([i \in 1..Len(A) |->
                   Array([j \in 1..Len(A[i]) |-> Sub(A[i][j], At(B, i, j))], 1, Len(A[i]))],
               1, Len(A))

RECURSIVE DotFrom_overwrites(_, _, _, _, _, _)
\* The inner loop of mat_mul with = in the place of +=.
DotFrom_overwrites(A, B, i, j, k, sum) ==
    IF k > Cols(A) THEN sum
    ELSE DotFrom_overwrites(A, B, i, j, k + 1, Mul(A[i][k], B[k][j]))

RECURSIVE DotFrom(_, _, _, _, _, _)
\* C[i][j] += A[i][k] * B[k][j] for k, k+1, ..., in that order, C[i][j] being
\* sum before.
DotFrom(A, B, i, j, k, sum) ==
    IF k > Cols(A) THEN sum
    ELSE DotFrom(A, B, i, j, k + 1, Add(sum, Mul(A[i][k], B[k][j])))

\* mat_mul comparing the rows of A, not its columns, with the rows of B; the
\* loop then reads B[k][j] in a row B does not have when A has more columns.
mat_mul_rowsCompared(A, B) ==
    IF Rows(A) # Rows(B) THEN IncompatibleDimensions
    ELSE IF Cols(A) > Rows(B) THEN UndefinedRow
    ELSE Array2([i \in 1..Rows(A) |-> [j \in 1..Cols(B) |-> DotFrom(A, B, i, j, 1, Zero)]],
                Rows(A), Cols(B))

mat_mul(A, B) ==
    IF Cols(A) # Rows(B) THEN IncompatibleDimensions
    ELSE Array2([i \in 1..Rows(A) |-> [j \in 1..Cols(B) |-> DotFrom(A, B, i, j, 1, Zero)]],
                Rows(A), Cols(B))

mat_transpose(A) ==
    Array2([c \in 1..Cols(A) |-> [r \in 1..Rows(A) |-> A[r][c]]], Cols(A), Rows(A))

mat_scalar_mul(A, s) ==
    Array([i \in 1..Len(A) |->
              Array([j \in 1..Len(A[i]) |-> Mul(A[i][j], s)], 1, Len(A[i]))],
          1, Len(A))

\* new Array(rows).fill(0).map(() => new Array(cols).fill(0))
Zeros(rows, cols) == Array2([i \in 1..rows |-> [j \in 1..cols |-> Zero]], rows, cols)

mat_identity(size) ==
    Array2([i \in 1..size |-> [j \in 1..size |-> IF i = j THEN One ELSE Zero]], size, size)

\* det of a 2x2 matrix, as mat_inv_2x2 computes it.
Det2(A) == Sub(Mul(A[1][1], A[2][2]), Mul(A[1][2], A[2][1]))

\* mat_inv_2x2 without the test of the determinant.
mat_inv_2x2_unchecked(A, isZero) ==
    << << Mul(A[2][2], Div(One, Det2(A))), Mul(Neg(A[1][2]), Div(One, Det2(A))) >>,
       << Mul(Neg(A[2][1]), Div(One, Det2(A))), Mul(A[1][1], Div(One, Det2(A))) >> >>

\* mat_inv_2x2 with a tolerance: a determinant below 1 in size counts as 0.
mat_inv_2x2_tolerant(A, isZero) ==
    IF TRUE \in GtOutcomes(One, Abs(Det2(A))) THEN SingularMatrix
    ELSE << << Mul(A[2][2], Div(One, Det2(A))), Mul(Neg(A[1][2]), Div(One, Det2(A))) >>,
            << Mul(Neg(A[2][1]), Div(One, Det2(A))), Mul(A[1][1], Div(One, Det2(A))) >> >>

\* mat_inv_2x2 without the change of sign of the off-diagonal entries.
mat_inv_2x2_unsigned(A, isZero) ==
    IF isZero THEN SingularMatrix
    ELSE << << Mul(A[2][2], Div(One, Det2(A))), Mul(A[1][2], Div(One, Det2(A))) >>,
            << Mul(A[2][1], Div(One, Det2(A))), Mul(A[1][1], Div(One, Det2(A))) >> >>

\* isZero is the outcome of the test det === 0.
mat_inv_2x2(A, isZero) ==
    IF isZero THEN SingularMatrix
    ELSE LET invDet == DivBy(One, Det2(A), TRUE)
         IN  << << Mul(A[2][2], invDet), Mul(Neg(A[1][2]), invDet) >>,
                << Mul(Neg(A[2][1]), invDet), Mul(A[1][1], invDet) >> >>


RECURSIVE CholeskySum(_, _, _, _, _)
\* sum += L[i][k] * L[j][k] for the columns k before j.
CholeskySum(L, i, j, k, sum) ==
    IF k >= j THEN sum
    ELSE CholeskySum(L, i, j, k + 1, Add(sum, Mul(L[i][k], L[j][k])))

\* L[i][i] = val > 0 ? Math.sqrt(val) : 0
CholeskyDiagonal(val) ==
    LET positive == GtOutcomes(val, Zero)
    IN  IF positive = {TRUE} THEN Sqrt(val)
        ELSE IF positive = {FALSE} THEN Zero
        ELSE Join(IF val = Fin THEN Fin ELSE Sqrt(val), Zero)

\* The entry below the diagonal without the division by the pivot.
CholeskyBelow_undivided(pivot, rest) == rest

\* The entry below the diagonal without the test of the pivot.
CholeskyBelow_unguarded(pivot, rest) == Mul(Div(One, pivot), rest)

\* if (L[j][j] === 0) continue; L[i][j] = 1.0 / L[j][j] * (A[i][j] - sum)
CholeskyBelow(pivot, rest) ==
    LET zero == ZeroOutcomes(pivot)
    IN  IF zero = {TRUE} THEN Zero
        ELSE IF zero = {FALSE} THEN Mul(DivBy(One, pivot, TRUE), rest)
        ELSE Join(Mul(DivBy(One, pivot, TRUE), rest), Zero)

RECURSIVE CholeskyFrom(_, _, _, _)
\* The loops of mat_cholesky from entry (i, j) on, L holding the entries
\* computed so far.
CholeskyFrom(A, L, i, j) ==
    IF i > Len(A) THEN L
    ELSE IF j > i THEN CholeskyFrom(A, L, i + 1, 1)
    ELSE LET sum   == CholeskySum(L, i, j, 1, Zero)
             entry == IF i = j THEN CholeskyDiagonal(Sub(A[i][i], sum))
                      ELSE CholeskyBelow(L[j][j], Sub(A[i][j], sum))
         IN  CholeskyFrom(A, [L EXCEPT ![i][j] = entry], i, j + 1)

mat_cholesky(A) ==
    CholeskyFrom(A, Zeros(Len(A), Len(A)), 1, 1)


\* ------------------------------------------------------------------ values
\* null is the empty tuple and a held value v is <<v>>.

Null == << >>
Some(v) == <<v>>
Get(o) == o[1]

Coordinates(a, b) == [x |-> Whole(a), y |-> Whole(b)]

\* ------------------------------------------------------------------- state

VARIABLES
    lowPassFilter,  \* the low-pass state the caller holds
    lpCalls,        \* applyLowPassFilter calls on it since it was created
    lpCall,         \* the last call: its arguments and what it returned, or Null
    lpFirst,        \* the first measurement since creation, or Null
    lpAlphas,       \* the alphas of the calls since creation
    lpSeen,         \* the measurements of the calls since creation
    now,            \* the last value Date.now() returned, in milliseconds
    kHeap,          \* the matrices of the Kalman states: address -> matrix or Null
    kalmanFilter,   \* the Kalman state the caller holds: addresses and scalars
    kSettings,      \* the q and r it was created with
    kCalls,         \* applyKalmanFilter calls on it since it was created
    kCall,          \* the last call, or Null
    uHeap,          \* the arrays of the UKF states: address -> array or Null
    ukfFilter,      \* the UKF state the caller holds: addresses and scalars
    uSettings,      \* the q and r it was created with
    uCalls,         \* applyUKF calls on it since it was created
    uCall,          \* the last call, or Null
    subject,        \* the filter the caller exercises
    matA,           \* the first argument of the matrix utility under test
    matB,           \* the second argument, of mat_mul
    matCall,        \* the last call of a matrix utility, or Null
    mousePosition,      \* mousePosition$: the pointer position, or Null
    filterStates,       \* filterStates$: which filters are switched on
    noiseSettings,      \* noiseSettings$: whether measurements are perturbed
    filteredPositions,  \* filteredPositions$: the published estimates
    subscribed,         \* the animation loop's subscription is active
    frames,             \* animation frames the loop has received
    changes,            \* settings changes made
    frame,              \* what the last animation frame did, or Null
    errorHistory,       \* canvas._errorHistory of the error graph
    graphCalls,         \* updateErrorGraph calls with a known actual position
    graphCall           \* the last updateErrorGraph call, or Null

lpVars == <<lowPassFilter, lpCalls, lpCall, lpFirst, lpAlphas, lpSeen>>

kVars == <<kHeap, kalmanFilter, kSettings, kCalls, kCall>>

uVars == <<uHeap, ukfFilter, uSettings, uCalls, uCall>>

matVars == <<matA, matB, matCall>>

appVars ==
    <<mousePosition, filterStates, noiseSettings, filteredPositions, subscribed,
      frames, changes, frame>>

graphVars == <<errorHistory, graphCalls, graphCall>>

vars == <<lpVars, now, kVars, uVars, subject, matVars, appVars, graphVars>>

\* --------------------------------------------------------- low-pass filter

\* The measurements and smoothing factors the caller passes.
LowPassMeasurements ==
    {Coordinates(0, 0), Coordinates(100, 100), Coordinates(200, 200), Coordinates(100, 200)}

LowPassAlphas == {Zero, Rat(1, 2), One}

initialLowPassFilter == [previousEstimate |-> Null]

\* !filter.previousEstimate: previousEstimate is an object or null, and every
\* object is truthy.
LowPassFirst(filter) == filter.previousEstimate = Null

\* Mutant: the weights of the measurement and of the previous estimate swapped.
LowPassBlend_swapped(filter, measurement, alpha) ==
    [x |-> Add(Mul(Sub(One, alpha), measurement.x), Mul(alpha, Get(filter.previousEstimate).x)),
     y |-> Add(Mul(Sub(One, alpha), measurement.y), Mul(alpha, Get(filter.previousEstimate).y))]

\* Mutant: the previous estimate added with the weight 1, not 1 - alpha.
LowPassBlend_unweighted(filter, measurement, alpha) ==
    [x |-> Add(Mul(alpha, measurement.x), Get(filter.previousEstimate).x),
     y |-> Add(Mul(alpha, measurement.y), Get(filter.previousEstimate).y)]

LowPassBlend(filter, measurement, alpha) ==
    [x |-> Add(Mul(alpha, measurement.x), Mul(Sub(One, alpha), Get(filter.previousEstimate).x)),
     y |-> Add(Mul(alpha, measurement.y), Mul(Sub(One, alpha), Get(filter.previousEstimate).y))]

\* Mutant: the first call smooths against an assumed previous estimate of (0, 0).
applyLowPassFilter_smoothsFirst(filter, measurement, alpha) ==
    LET prev == IF LowPassFirst(filter) THEN [previousEstimate |-> Some(Coordinates(0, 0))]
                ELSE filter
        newEstimate == LowPassBlend(prev, measurement, alpha)
    IN  <<newEstimate, [previousEstimate |-> Some(newEstimate)]>>

\* Mutant: the state remembers a measurement only if its x is truthy.
applyLowPassFilter_truthyX(filter, measurement, alpha) ==
    IF LowPassFirst(filter)
    THEN <<measurement,
           [previousEstimate |-> IF measurement.x = Zero THEN Null ELSE Some(measurement)]>>
    ELSE LET newEstimate == LowPassBlend(filter, measurement, alpha)
         IN  <<newEstimate,
               [previousEstimate |-> IF newEstimate.x = Zero THEN Null ELSE Some(newEstimate)]>>

\* The pair [estimate, state] that applyLowPassFilter returns.
applyLowPassFilter(filter, measurement, alpha) ==
    IF LowPassFirst(filter)
    THEN <<measurement, [previousEstimate |-> Some(measurement)]>>
    ELSE LET newEstimate == LowPassBlend(filter, measurement, alpha)
         IN  <<newEstimate, [previousEstimate |-> Some(newEstimate)]>>

LowPassInit ==
    /\ lowPassFilter = initialLowPassFilter
    /\ lpCalls = 0
    /\ lpCall = Null
    /\ lpFirst = Null
    /\ lpAlphas = {}
    /\ lpSeen = {}

\* The caller discards the state and creates a new one.
LowPassCreate ==
    /\ lpCalls > 0
    /\ lowPassFilter' = initialLowPassFilter
    /\ lpCalls' = 0
    /\ lpCall' = Null
    /\ lpFirst' = Null
    /\ lpAlphas' = {}
    /\ lpSeen' = {}
    /\ UNCHANGED <<now, kVars, uVars, subject, graphVars, matVars, appVars>>

\* One call, its result threaded into the state the caller holds.
LowPassApply ==
    /\ lpCalls < MaxLowPassCalls
    /\ \E measurement \in LowPassMeasurements, alpha \in LowPassAlphas :
          LET r == applyLowPassFilter(lowPassFilter, measurement, alpha)
          IN  /\ lowPassFilter' = r[2]
              /\ lpCall' = Some([filter |-> lowPassFilter, measurement |-> measurement,
                                 alpha |-> alpha, estimate |-> r[1], state |-> r[2]])
              /\ lpFirst' = IF lpCalls = 0 THEN Some(measurement) ELSE lpFirst
              /\ lpAlphas' = lpAlphas \cup {alpha}
              /\ lpSeen' = lpSeen \cup {measurement}
    /\ lpCalls' = lpCalls + 1
    /\ UNCHANGED <<now, kVars, uVars, subject, graphVars, matVars, appVars>>

LowPassNext == LowPassApply \/ LowPassCreate


\* C1: applyLowPassFilter on a state whose previousEstimate is absent returns,
\* for every measurement and every alpha, the measurement itself as the
\* estimate and a state whose previousEstimate is that measurement.
C1_FirstCallReturnsMeasurement ==
    (lpCall # Null /\ Get(lpCall).filter.previousEstimate = Null)
    => /\ Get(lpCall).estimate = Get(lpCall).measurement
       /\ Get(lpCall).state.previousEstimate = Some(Get(lpCall).measurement)

C1_Witness ==
    /\ lpCall # Null
    /\ Get(lpCall).filter.previousEstimate = Null
    /\ Get(lpCall).alpha = Rat(1, 2)
    /\ Get(lpCall).estimate = Coordinates(100, 200)

\* C2: applyLowPassFilter on a state that holds a previous estimate p returns
\* alpha*measurement + (1 - alpha)*p componentwise, that is p moved by alpha
\* times the distance to the measurement, and the returned state's
\* previousEstimate is the returned estimate; alpha = 1/2 takes (100,100)
\* and (200,200) to (150,150).
C2_LaterCallBlends ==
    (lpCall # Null /\ Get(lpCall).filter.previousEstimate # Null)
    => LET c == Get(lpCall)
           p == Get(c.filter.previousEstimate)
       IN  /\ Sub(c.estimate.x, p.x) = Mul(c.alpha, Sub(c.measurement.x, p.x))
           /\ Sub(c.estimate.y, p.y) = Mul(c.alpha, Sub(c.measurement.y, p.y))
           /\ c.state.previousEstimate = Some(c.estimate)
           /\ (c.alpha = Rat(1, 2) /\ p = Coordinates(100, 100)
                  /\ c.measurement = Coordinates(200, 200))
              => c.estimate = Coordinates(150, 150)

C2_Witness ==
    /\ lpCall # Null
    /\ Get(lpCall).filter.previousEstimate = Some(Coordinates(100, 100))
    /\ Get(lpCall).measurement = Coordinates(200, 200)
    /\ Get(lpCall).alpha = Rat(1, 2)
    /\ Get(lpCall).estimate = Coordinates(150, 150)

\* C3: with alpha = 0 in every call since initialLowPassFilter(), every
\* returned estimate is the first measurement of the sequence.
C3_AlphaZeroFreezes ==
    (lpCall # Null /\ lpAlphas = {Zero}) => Get(lpCall).estimate = Get(lpFirst)

C3_Witness ==
    /\ lpCalls = 3
    /\ lpAlphas = {Zero}
    /\ lpFirst = Some(Coordinates(100, 200))
    /\ Get(lpCall).measurement = Coordinates(200, 200)
    /\ Get(lpCall).estimate = Coordinates(100, 200)

\* C4: the low-pass state is Uninitialized (previousEstimate null) exactly
\* until the first applyLowPassFilter, and no later applyLowPassFilter
\* returns a state with previousEstimate absent.
C4_InitializedForGood ==
    /\ lpCalls = 0 => lowPassFilter.previousEstimate = Null
    /\ lpCalls > 0 => /\ lowPassFilter.previousEstimate # Null
                      /\ Get(lpCall).state.previousEstimate # Null

C4_Witness ==
    /\ lpCalls = 3
    /\ lowPassFilter.previousEstimate = Some(Coordinates(0, 0))
    /\ Get(lpCall).filter.previousEstimate = Some(Coordinates(0, 0))


\* ------------------------------------------------------------------- clock

\* The values Date.now() returns: the tests set the clock to 0 and step it by
\* 15 ms; two calls can also fall into the same millisecond.
ClockValues == {t \in 0..MaxClock : t % 15 = 0}

\* A number | null that JavaScript takes for true: neither null nor 0.
Truthy(o) == o # Null /\ Get(o) # 0

\* const dt = lastTimestamp ? (currentTimestamp - lastTimestamp) / 15 : 1
NormalizedDt(lastTimestamp, currentTimestamp) ==
    IF Truthy(lastTimestamp) THEN Rat(currentTimestamp - Get(lastTimestamp), 15) ELSE One

\* ----------------------------------------------------------- Kalman filter

KalmanAddrs == 1..8

\* The process and measurement noise the caller passes to initialKalmanFilter.
KalmanSettings == {[q |-> Zero, r |-> Zero], [q |-> One, r |-> One]}

KalmanMeasurements == {Coordinates(0, 0), Coordinates(3, 4)}

Column(vals) == Array([i \in 1..Len(vals) |-> <<vals[i]>>], 1, Len(vals))

\* The matrices of initialKalmanFilter(q, r), in the order x, P, A, H, Q, R.
InitialKalmanMatrices(q, r) ==
    << Column(<<Zero, Zero, Zero, Zero>>),
       mat_identity(4),
       << <<One, Zero, One, Zero>>, <<Zero, One, Zero, One>>,
          <<Zero, Zero, One, Zero>>, <<Zero, Zero, Zero, One>> >>,
       << <<One, Zero, Zero, Zero>>, <<Zero, One, Zero, Zero>> >>,
       mat_scalar_mul(mat_identity(4), q),
       mat_scalar_mul(mat_identity(2), r) >>

\* initialKalmanFilter(q, r): six new arrays, at addresses 1..6 of a new heap.
initialKalmanHeap(q, r) ==
    [a \in KalmanAddrs |-> IF a <= 6 THEN InitialKalmanMatrices(q, r)[a] ELSE Null]

initialKalmanFilter ==
    [x |-> 1, P |-> 2, A |-> 3, H |-> 4, Q |-> 5, R |-> 6,
     firstRun |-> TRUE, lastTimestamp |-> Null]

\* The values a Kalman state has in a heap.
KalmanValue(heap, filter) ==
    [x |-> heap[filter.x], P |-> heap[filter.P], A |-> heap[filter.A],
     H |-> heap[filter.H], Q |-> heap[filter.Q], R |-> heap[filter.R],
     firstRun |-> filter.firstRun, lastTimestamp |-> filter.lastTimestamp]

KalmanRefs(filter) == {filter.x, filter.P, filter.A, filter.H, filter.Q, filter.R}

\* The i-th smallest address no state in `live` holds.
FreeAddr(addrs, live, i) ==
    CHOOSE a \in addrs \ live : Cardinality({b \in addrs \ live : b < a}) = i - 1

\* dt written into the array H of the state instead of the array A.
KalmanSetDt_intoH(heap, filter, dt) ==
    [heap EXCEPT ![filter.H] = [@ EXCEPT ![1] = [@ EXCEPT ![3] = dt],
                                         ![2] = [@ EXCEPT ![4] = dt]]]

\* A[0][2] = dt; A[1][3] = dt: written into the array the state holds.
KalmanSetDt(heap, filter, dt) ==
    [heap EXCEPT ![filter.A] = [@ EXCEPT ![1] = [@ EXCEPT ![3] = dt],
                                         ![2] = [@ EXCEPT ![4] = dt]]]

\* applyKalmanFilter without the seeding of x on the first run.
KalmanSeed_keepsX(heap, filter, measurement) == heap[filter.x]

\* if (firstRun) x = [[measurement.x], [measurement.y], [0], [0]]: a new array.
KalmanSeed(heap, filter, measurement) ==
    IF filter.firstRun THEN Column(<<measurement.x, measurement.y, Zero, Zero>>)
    ELSE heap[filter.x]

\* applyKalmanFilter(filter, measurement) with Date.now() = currentTimestamp:
\* the set of its possible outcomes, one for each outcome of the test
\* det === 0 in mat_inv_2x2.  threw: the call raised `error`; otherwise it
\* returned [estimate, state].  heap is the heap after the call; the arrays
\* that neither the state passed in nor the state returned holds are collected.
applyKalmanFilter(heap, filter, measurement, currentTimestamp) ==
    LET dt     == NormalizedDt(filter.lastTimestamp, currentTimestamp)
        heap1  == KalmanSetDt(heap, filter, dt)
        A      == heap1[filter.A]
        H      == heap1[filter.H]
        x      == KalmanSeed(heap1, filter, measurement)
        x_pred == mat_mul(A, x)
        P_pred == mat_add(mat_mul(mat_mul(A, heap1[filter.P]), mat_transpose(A)),
                          heap1[filter.Q])
        z      == Column(<<measurement.x, measurement.y>>)
        y      == mat_sub(z, mat_mul(H, x_pred))
        S      == mat_add(mat_mul(mat_mul(H, P_pred), mat_transpose(H)), heap1[filter.R])
        call   == [filter |-> filter, before |-> KalmanValue(heap, filter),
                   measurement |-> measurement, currentTimestamp |-> currentTimestamp,
                   dt |-> dt, S |-> S]
        ax     == FreeAddr(KalmanAddrs, KalmanRefs(filter), 1)
        aP     == FreeAddr(KalmanAddrs, KalmanRefs(filter), 2)
        Outcome(S_inv) ==
            IF S_inv = SingularMatrix
            THEN [threw |-> TRUE, error |-> SingularMatrix, heap |-> heap1, call |-> call]
            ELSE LET K     == mat_mul(mat_mul(P_pred, mat_transpose(H)), S_inv)
                     x_new == mat_add(x_pred, mat_mul(K, y))
                     P_new == mat_mul(mat_sub(mat_identity(4), mat_mul(K, H)), P_pred)
                 IN  [threw |-> FALSE,
                      estimate |-> [x |-> x_new[1][1], y |-> x_new[2][1]],
                      state |-> [filter EXCEPT !.x = ax, !.P = aP, !.firstRun = FALSE,
                                               !.lastTimestamp = Some(currentTimestamp)],
                      heap |-> [a \in KalmanAddrs |->
                                  IF a = ax THEN x_new
                                  ELSE IF a = aP THEN P_new
                                  ELSE IF a \in KalmanRefs(filter) THEN heap1[a]
                                  ELSE Null],
                      call |-> call]
    IN  {Outcome(mat_inv_2x2(S, isZero)) : isZero \in ZeroOutcomes(Det2(S))}

KalmanInit ==
    /\ kSettings \in KalmanSettings
    /\ kHeap = initialKalmanHeap(kSettings.q, kSettings.r)
    /\ kalmanFilter = initialKalmanFilter
    /\ kCalls = 0
    /\ kCall = Null

\* The caller discards the state and creates a new one.
KalmanCreate ==
    /\ kCalls > 0
    /\ kSettings' \in KalmanSettings
    /\ kHeap' = initialKalmanHeap(kSettings'.q, kSettings'.r)
    /\ kalmanFilter' = initialKalmanFilter
    /\ kCalls' = 0
    /\ kCall' = Null
    /\ UNCHANGED <<now, lpVars, uVars, subject, graphVars, matVars, appVars>>

\* One call at a clock value the clock has reached or reaches now.  The caller
\* takes the returned state; when the call throws it keeps the state it passed.
KalmanApply ==
    /\ kCalls < MaxKalmanCalls
    /\ \E measurement \in KalmanMeasurements, t \in ClockValues :
          /\ t >= now
          /\ now' = t
          /\ \E r \in applyKalmanFilter(kHeap, kalmanFilter, measurement, t) :
                 /\ kHeap' = r.heap
                 /\ kalmanFilter' = IF r.threw THEN kalmanFilter ELSE r.state
                 /\ kCall' = Some([r EXCEPT !.heap = Null])
    /\ kCalls' = kCalls + 1
    /\ UNCHANGED <<kSettings, lpVars, uVars, subject, graphVars, matVars, appVars>>

KalmanNext == KalmanApply \/ KalmanCreate

\* A Kalman filter nobody calls.
KalmanIdle ==
    /\ kHeap = initialKalmanHeap(Zero, One)
    /\ kSettings = [q |-> Zero, r |-> One]
    /\ kalmanFilter = initialKalmanFilter
    /\ kCalls = 0
    /\ kCall = Null

\* A caller that follows a target standing still: every call passes the
\* measurement of the call before, at a clock value of the caller's choice.

\* The targets; (100, 100) is the target of the stationary-target test.
TrackTargets == {Coordinates(3, 4), Coordinates(100, 100)}

\* The settings of the filter that follows the target; q = 0.1, r = 1 are the
\* settings of the stationary-target test.
TrackSettings == KalmanSettings \cup {[q |-> Rat(1, 10), r |-> One]}

TrackInit ==
    /\ kSettings \in TrackSettings
    /\ kHeap = initialKalmanHeap(kSettings.q, kSettings.r)
    /\ kalmanFilter = initialKalmanFilter
    /\ kCalls = 0
    /\ kCall = Null

\* [result, filter] = applyKalmanFilter(filter, target), any time after the
\* call before.  When the call throws the caller keeps the state it passed.
TrackApply ==
    /\ kCalls < MaxTrackCalls
    /\ \E target \in (IF kCall = Null THEN TrackTargets
                       ELSE {Get(kCall).call.measurement}),
          t \in ClockValues :
          /\ t >= now
          /\ now' = t
          /\ \E r \in applyKalmanFilter(kHeap, kalmanFilter, target, t) :
                 /\ kHeap' = r.heap
                 /\ kalmanFilter' = IF r.threw THEN kalmanFilter ELSE r.state
                 /\ kCall' = Some([r EXCEPT !.heap = Null])
    /\ kCalls' = kCalls + 1
    /\ UNCHANGED <<kSettings, lpVars, uVars, subject, graphVars, matVars, appVars>>

\* ------------------------------------------------- unscented Kalman filter

UKFAddrs == 1..8

\* The scalars of initialUKF.
initialUKFScalars ==
    LET n      == Whole(5)
        alpha  == Rat(1, 100)
        kappa  == Zero
        lambda == Sub(Mul(Mul(alpha, alpha), Add(n, kappa)), n)
    IN  [n |-> 5, m |-> 2, alpha |-> alpha, beta |-> Whole(2), kappa |-> kappa,
         lambda |-> lambda]

\* The weights with 1 / (n + lambda) in the place of 1 / (2 * (n + lambda)).
initialUKFWeights_unhalved ==
    LET c      == initialUKFScalars
        n      == Whole(c.n)
        first  == Div(c.lambda, Add(n, c.lambda))
        others == Div(One, Add(n, c.lambda))
    IN  [weights_m |-> [i \in 1..(2 * c.n + 1) |-> IF i = 1 THEN first ELSE others],
         weights_c |-> [i \in 1..(2 * c.n + 1) |->
                           IF i = 1
                           THEN Add(first, Add(Sub(One, Mul(c.alpha, c.alpha)), c.beta))
                           ELSE others]]

\* weights_m and weights_c of initialUKF.
initialUKFWeights ==
    LET c      == initialUKFScalars
        n      == Whole(c.n)
        first  == Div(c.lambda, Add(n, c.lambda))
        others == Div(One, Mul(Whole(2), Add(n, c.lambda)))
    IN  [weights_m |-> Array([i \in 1..(2 * c.n + 1) |-> IF i = 1 THEN first ELSE others],
                             1, 2 * c.n + 1),
         weights_c |-> Array([i \in 1..(2 * c.n + 1) |->
                                 IF i = 1
                                 THEN Add(first, Add(Sub(One, Mul(c.alpha, c.alpha)), c.beta))
                                 ELSE others],
                             1, 2 * c.n + 1)]

\* Q of initialUKF(q_val, r_val): the identity with its diagonal overwritten.
initialUKFQ(q_val) ==
    LET I == mat_identity(initialUKFScalars.n)
    IN  [I EXCEPT ![1][1] = Rat(1, 10), ![2][2] = Rat(1, 10), ![3][3] = q_val,
                  ![4][4] = Rat(1, 10), ![5][5] = q_val]

\* initialUKF(q_val, r_val): new arrays x, P, Q, R, weights_m, weights_c at
\* addresses 1..6 of a new heap.
initialUKFHeap(q_val, r_val) ==
    LET arrays == << Column(<<Zero, Zero, Zero, Zero, Zero>>),
                     mat_identity(initialUKFScalars.n),
                     initialUKFQ(q_val),
                     mat_scalar_mul(mat_identity(initialUKFScalars.m), r_val),
                     initialUKFWeights.weights_m,
                     initialUKFWeights.weights_c >>
    IN  [a \in UKFAddrs |-> IF a <= 6 THEN arrays[a] ELSE Null]

initialUKF ==
    LET c == initialUKFScalars
    IN  [x |-> 1, P |-> 2, Q |-> 3, R |-> 4,
         n |-> c.n, m |-> c.m, alpha |-> c.alpha, beta |-> c.beta, kappa |-> c.kappa,
         lambda |-> c.lambda, weights_m |-> 5, weights_c |-> 6,
         lastTimestamp |-> Null, lastMeasurement |-> Null]

\* The values a UKF state has in a heap.
UKFValue(heap, filter) ==
    [filter EXCEPT !.x = heap[filter.x], !.P = heap[filter.P], !.Q = heap[filter.Q],
                   !.R = heap[filter.R], !.weights_m = heap[filter.weights_m],
                   !.weights_c = heap[filter.weights_c]]

UKFRefs(filter) ==
    {filter.x, filter.P, filter.Q, filter.R, filter.weights_m, filter.weights_c}

\* The first measurement written with its coordinates exchanged.
UKFSetPosition_exchanged(heap, filter, measurement) ==
    [heap EXCEPT ![filter.x] = [@ EXCEPT ![1] = <<measurement.y>>,
                                         ![2] = <<measurement.x>>]]

\* if (!lastMeasurement) { x[0][0] = measurement.x; x[1][0] = measurement.y; ... }:
\* written into the array the state holds.
UKFSetPosition(heap, filter, measurement) ==
    [heap EXCEPT ![filter.x] = [@ EXCEPT ![1] = <<measurement.x>>,
                                         ![2] = <<measurement.y>>]]

\* The array x after the velocity and heading initialisation of the second
\* run: if (lastTimestamp && x[2][0] === 0) { x[2][0] = speed; x[3][0] = heading }.
UKFBootstrap(x, filter, measurement, dt) ==
    IF ~Truthy(filter.lastTimestamp) THEN x
    ELSE LET zero    == ZeroOutcomes(x[3][1])
             last    == Get(filter.lastMeasurement)
             dx      == Sub(measurement.x, last.x)
             dy      == Sub(measurement.y, last.y)
             speed   == Div(Sqrt(Add(Mul(dx, dx), Mul(dy, dy))), dt)
             heading == Atan2(dy, dx)
         IN  IF zero = {FALSE} THEN x
             ELSE IF zero = {TRUE} THEN [x EXCEPT ![3] = <<speed>>, ![4] = <<heading>>]
             ELSE [x EXCEPT ![3] = <<Join(speed, x[3][1])>>,
                            ![4] = <<Join(heading, x[4][1])>>]

\* const col = P_sqrt.map(row => [row[i]])
ColumnOf(P_sqrt, i) == Array([r \in 1..Len(P_sqrt) |-> <<P_sqrt[r][i]>>], 1, Len(P_sqrt))

\* The sigma points with x + column i in both halves.
SigmaPoints_sameSide(x, P_sqrt, n) ==
    Array([k \in 1..(2 * n + 1) |->
              IF k = 1 THEN x
              ELSE IF k <= n + 1 THEN mat_add(x, ColumnOf(P_sqrt, k - 1))
              ELSE mat_add(x, ColumnOf(P_sqrt, k - 1 - n))],
          1, 2 * n + 1)

\* The 2n+1 sigma points: x, then x + column i and x - column i of P_sqrt.
SigmaPoints(x, P_sqrt, n) ==
    Array([k \in 1..(2 * n + 1) |->
              IF k = 1 THEN x
              ELSE IF k <= n + 1 THEN mat_add(x, ColumnOf(P_sqrt, k - 1))
              ELSE mat_sub(x, ColumnOf(P_sqrt, k - 1 - n))],
          1, 2 * n + 1)

\* One sigma point through the motion model: the coordinated turn for
\* |omega| > 0.0001, the straight line otherwise.
PredictSigmaPoint(sp, dt) ==
    LET px     == sp[1][1]
        py     == sp[2][1]
        v      == sp[3][1]
        theta  == sp[4][1]
        omega  == sp[5][1]
        turn   == GtOutcomes(Abs(omega), Rat(1, 10000))
        ahead  == Add(theta, Mul(omega, dt))
        px_t   == Add(px, Mul(DivBy(v, omega, TRUE), Sub(Sin(ahead), Sin(theta))))
        py_t   == Add(py, Mul(DivBy(v, omega, TRUE), Add(Neg(Cos(ahead)), Cos(theta))))
        px_l   == Add(px, Mul(Mul(v, Cos(theta)), dt))
        py_l   == Add(py, Mul(Mul(v, Sin(theta)), dt))
        px_p   == IF turn = {TRUE} THEN px_t ELSE IF turn = {FALSE} THEN px_l
                  ELSE Join(px_t, px_l)
        py_p   == IF turn = {TRUE} THEN py_t ELSE IF turn = {FALSE} THEN py_l
                  ELSE Join(py_t, py_l)
    IN  Column(<<px_p, py_p, v, ahead, omega>>)

RECURSIVE WeightedSumFrom(_, _, _, _, _)
\* sum += weights[i] * points[i][j][0] for the points i, i+1, ...
WeightedSumFrom(points, weights, j, i, sum) ==
    IF i > Len(points) THEN sum
    ELSE WeightedSumFrom(points, weights, j, i + 1,
                         Add(sum, Mul(weights[i], points[i][j][1])))

\* The weighted mean of column vectors with `rows` rows.
WeightedMean(points, weights, rows) ==
    Array([j \in 1..rows |-> <<WeightedSumFrom(points, weights, j, 1, Zero)>>], 1, rows)

RECURSIVE WeightedCovFrom(_, _, _, _, _, _, _)
\* C = C + weights[i] * (as[i] - a)(bs[i] - b)^T for the points i, i+1, ...
WeightedCovFrom(as, a, bs, b, weights, i, C) ==
    IF i > Len(as) THEN C
    ELSE WeightedCovFrom(as, a, bs, b, weights, i + 1,
             mat_add(C, mat_scalar_mul(mat_mul(mat_sub(as[i], a),
                                               mat_transpose(mat_sub(bs[i], b))),
                                       weights[i])))

\* The steps of a full applyUKF cycle.  Each takes the record c of the values
\* computed so far (heap, filter, measurement, currentTimestamp, dt, x and the
\* results of the steps before it) and hands it, extended, to the next step.

\* const K = mat_mul(T, mat_inv_2x2(S)) and the rest of the update: the set of
\* the outcomes of the call, one for each outcome of the test det === 0.
UKFUpdate(c) ==
    LET filter == c.filter
        ax     == FreeAddr(UKFAddrs, UKFRefs(filter), 1)
        aP     == FreeAddr(UKFAddrs, UKFRefs(filter), 2)
        call   == [filter |-> filter, before |-> c.before,
                   measurement |-> c.measurement,
                   currentTimestamp |-> c.currentTimestamp, dt |-> c.dt,
                   sigma_points |-> c.sigma_points, S |-> c.S]
        Outcome(S_inv) ==
            IF S_inv = SingularMatrix
            THEN [threw |-> TRUE, error |-> SingularMatrix, heap |-> c.heap,
                  cycle |-> TRUE, call |-> call]
            ELSE LET K          == mat_mul(c.T, S_inv)
                     z_actual   == Column(<<c.measurement.x, c.measurement.y>>)
                     z_residual == mat_sub(z_actual, c.z_pred)
                     x_new      == mat_add(c.x_pred, mat_mul(K, z_residual))
                     P_new      == mat_sub(c.P_pred,
                                           mat_mul(mat_mul(K, c.S), mat_transpose(K)))
                 IN  [threw |-> FALSE,
                      estimate |-> [x |-> x_new[1][1], y |-> x_new[2][1]],
                      state |-> [filter EXCEPT
                                    !.x = ax, !.P = aP,
                                    !.lastTimestamp = Some(c.currentTimestamp),
                                    !.lastMeasurement = Some(c.measurement)],
                      heap |-> [a \in UKFAddrs |->
                                  IF a = ax THEN x_new
                                  ELSE IF a = aP THEN P_new
                                  ELSE IF a \in UKFRefs(filter) THEN c.heap[a]
                                  ELSE Null],
                      cycle |-> TRUE,
                      call |-> call]
    IN  {Outcome(mat_inv_2x2(c.S, isZero)) : isZero \in ZeroOutcomes(Det2(c.S))}

\* P_pred, S and T: the weighted covariances of the predicted sigma points.
UKFCovariances(c) ==
    LET n         == c.filter.n
        m         == c.filter.m
        weights_c == c.heap[c.filter.weights_c]
    IN  UKFUpdate(c @@
          [P_pred |-> mat_add(WeightedCovFrom(c.sigma_points_pred, c.x_pred,
                                              c.sigma_points_pred, c.x_pred,
                                              weights_c, 1, Zeros(n, n)),
                              c.heap[c.filter.Q]),
           S      |-> mat_add(WeightedCovFrom(c.z_sigma_points, c.z_pred,
                                              c.z_sigma_points, c.z_pred,
                                              weights_c, 1, Zeros(m, m)),
                              c.heap[c.filter.R]),
           T      |-> WeightedCovFrom(c.sigma_points_pred, c.x_pred,
                                      c.z_sigma_points, c.z_pred,
                                      weights_c, 1, Zeros(n, m))])

\* sigma_points_pred.map(sp => [[sp[0][0]], [sp[1][0]]])
MeasurementPoints(sigma_points_pred) ==
    Array([i \in 1..Len(sigma_points_pred) |->
              << <<sigma_points_pred[i][1][1]>>, <<sigma_points_pred[i][2][1]>> >>],
          1, Len(sigma_points_pred))

\* x_pred, z_sigma_points and z_pred: the weighted means.
UKFMeans(c) ==
    LET weights_m == c.heap[c.filter.weights_m]
    IN  UKFCovariances(c @@
          [x_pred         |-> WeightedMean(c.sigma_points_pred, weights_m, c.filter.n),
           z_sigma_points |-> MeasurementPoints(c.sigma_points_pred),
           z_pred         |-> WeightedMean(MeasurementPoints(c.sigma_points_pred),
                                           weights_m, c.filter.m)])

\* 2. Predict Step: every sigma point through the motion model.
UKFPredict(c) ==
    UKFMeans(c @@
      [sigma_points_pred |->
          Array([i \in 1..Len(c.sigma_points) |->
                    PredictSigmaPoint(c.sigma_points[i], c.dt)],
                1, Len(c.sigma_points))])

\* 1. Generate Sigma Points.
UKFSigmaPoints(c) ==
    UKFPredict(c @@
      [sigma_points |->
          SigmaPoints(c.x,
                      mat_cholesky(mat_scalar_mul(c.heap[c.filter.P],
                                                  Add(Whole(c.filter.n), c.filter.lambda))),
                      c.filter.n)])

\* The full cycle recording the timestamp of the state passed in, not the
\* clock value read.
UKFCycle_staleClock(heap, filter, measurement, currentTimestamp, dt, x) ==
    UKFSigmaPoints([heap |-> [heap EXCEPT ![filter.x] = x], filter |-> filter,
                    before |-> UKFValue(heap, filter), measurement |-> measurement,
                    currentTimestamp |-> Get(filter.lastTimestamp), dt |-> dt, x |-> x])

\* The call past the first-measurement return, x being the array the state
\* holds after the velocity initialisation.
UKFCycle(heap, filter, measurement, currentTimestamp, dt, x) ==
    UKFSigmaPoints([heap |-> [heap EXCEPT ![filter.x] = x], filter |-> filter,
                    before |-> UKFValue(heap, filter), measurement |-> measurement,
                    currentTimestamp |-> currentTimestamp, dt |-> dt, x |-> x])

\* applyUKF(filter, measurement) with Date.now() = currentTimestamp: the set
\* of its possible outcomes.  threw: the call raised `error`; otherwise it
\* returned [estimate, state].  heap is the heap after the call.  cycle: the
\* call went past the first-measurement return.
applyUKF(heap, filter, measurement, currentTimestamp) ==
    LET dt == NormalizedDt(filter.lastTimestamp, currentTimestamp)
    IN  IF filter.lastMeasurement = Null
        THEN LET heap1 == UKFSetPosition(heap, filter, measurement)
             IN  {[threw |-> FALSE,
                   estimate |-> [x |-> heap1[filter.x][1][1], y |-> heap1[filter.x][2][1]],
                   state |-> [filter EXCEPT !.lastTimestamp = Some(currentTimestamp),
                                            !.lastMeasurement = Some(measurement)],
                   heap |-> heap1,
                   cycle |-> FALSE,
                   call |-> [filter |-> filter, before |-> UKFValue(heap, filter),
                             measurement |-> measurement,
                             currentTimestamp |-> currentTimestamp, dt |-> dt]]}
        ELSE UKFCycle(heap, filter, measurement, currentTimestamp, dt,
                      UKFBootstrap(heap[filter.x], filter, measurement, dt))

\* The process and measurement noise the caller passes to initialUKF.  r_val
\* is any number, initialUKF does not check it: with -1 the innovation
\* covariance of a target that stands still is singular.
UKFSettings == {[q |-> One, r |-> One], [q |-> One, r |-> Whole(-1)]}

UKFMeasurements == {Coordinates(0, 0), Coordinates(3, 4)}

UKFInit ==
    /\ uSettings \in UKFSettings
    /\ uHeap = initialUKFHeap(uSettings.q, uSettings.r)
    /\ ukfFilter = initialUKF
    /\ uCalls = 0
    /\ uCall = Null

\* The caller discards the state and creates a new one.
UKFCreate ==
    /\ uCalls > 0
    /\ uSettings' \in UKFSettings
    /\ uHeap' = initialUKFHeap(uSettings'.q, uSettings'.r)
    /\ ukfFilter' = initialUKF
    /\ uCalls' = 0
    /\ uCall' = Null
    /\ UNCHANGED <<now, lpVars, kVars, subject, graphVars, matVars, appVars>>

\* One call at a clock value the clock has reached or reaches now.  The caller
\* takes the returned state; when the call throws it keeps the state it passed.
UKFApply ==
    /\ uCalls < MaxUKFCalls
    /\ \E measurement \in UKFMeasurements, t \in ClockValues :
          /\ t >= now
          /\ now' = t
          /\ \E r \in applyUKF(uHeap, ukfFilter, measurement, t) :
                 /\ uHeap' = r.heap
                 /\ ukfFilter' = IF r.threw THEN ukfFilter ELSE r.state
                 /\ uCall' = Some([r EXCEPT !.heap = Null])
    /\ uCalls' = uCalls + 1
    /\ UNCHANGED <<uSettings, lpVars, kVars, subject, graphVars, matVars, appVars>>

UKFNext == UKFApply \/ UKFCreate

\* A UKF nobody calls.
UKFIdle ==
    /\ uHeap = initialUKFHeap(One, One)
    /\ uSettings = [q |-> One, r |-> One]
    /\ ukfFilter = initialUKF
    /\ uCalls = 0
    /\ uCall = Null

\* -------------------------------------------------------- matrix utilities
\* The exported utilities of src/utils/matrix.ts, the same code as the private
\* copies in filterService.ts, applied to arguments of the caller's choice.
\* The arguments are matrices in the sense of the type Matrix: at least one
\* row, rows of one length, at least one column.

\* A matrix of whole numbers, from its rows.
WholeMatrix(rows) ==
    [i \in 1..Len(rows) |-> [j \in 1..Len(rows[i]) |-> Whole(rows[i][j])]]

\* Every 2x2 matrix with entries in -1 .. MaxEntry.
SmallSquares ==
    {WholeMatrix(<<<<a, b>>, <<c, d>>>>) : a, b, c, d \in -1..MaxEntry}

\* The arguments of the tests of matrix.test.ts, and a few of other shapes.
TestMatrices ==
    { WholeMatrix(<<<<1, 2>>, <<3, 4>>>>),
      WholeMatrix(<<<<5, 6>>, <<7, 8>>>>),
      WholeMatrix(<<<<1, 2, 3>>, <<4, 5, 6>>>>),
      WholeMatrix(<<<<7, 8>>, <<9, 10>>, <<11, 12>>>>),
      WholeMatrix(<<<<1, 2, 3>>, <<4, 5, 6>>, <<7, 8, 9>>>>),
      WholeMatrix(<<<<4, 7>>, <<2, 6>>>>),
      WholeMatrix(<<<<1, 2>>, <<2, 4>>>>),
      WholeMatrix(<<<<4, 2>>, <<2, 5>>>>),
      WholeMatrix(<<<<4, 2, 1>>, <<2, 5, 3>>, <<1, 3, 6>>>>),
      WholeMatrix(<<<<4, 2, 2>>, <<2, 5, 3>>, <<2, 3, 6>>>>),
      WholeMatrix(<<<<1, 1, 1>>, <<1, 1, 2>>, <<1, 2, 6>>>>),
      WholeMatrix(<<<<0, 1, 1>>, <<1, 1, 2>>, <<1, 2, -3>>>>),
      WholeMatrix(<<<<3>>>>),
      WholeMatrix(<<<<1, 2>>>>),
      WholeMatrix(<<<<1>>, <<2>>>>),
      <<<<Rat(1, 2), Zero>>, <<Zero, Rat(1, 2)>>>>,
      <<<<Rat(1, 4), Rat(1, 2)>>, <<Rat(1, 2), Whole(2)>>>>,
      mat_identity(2), mat_identity(3) }

MatrixInputs == SmallSquares \cup TestMatrices

\* The second arguments of mat_mul.
RightMatrices ==
    { WholeMatrix(<<<<5, 6>>, <<7, 8>>>>),
      WholeMatrix(<<<<7, 8>>, <<9, 10>>, <<11, 12>>>>),
      WholeMatrix(<<<<1, 2, 3>>, <<4, 5, 6>>>>),
      WholeMatrix(<<<<1, 2, 3>>, <<4, 5, 6>>, <<7, 8, 9>>>>),
      WholeMatrix(<<<<1, 2>>>>),
      WholeMatrix(<<<<1>>, <<2>>>>),
      mat_identity(2), mat_identity(3) }

\* What the caller sees of a call: the error thrown or the matrix returned.
MatrixCall(fn, A, B, r, error) ==
    IF r = error
    THEN [fn |-> fn, A |-> A, B |-> B, threw |-> TRUE, error |-> r]
    ELSE [fn |-> fn, A |-> A, B |-> B, threw |-> FALSE, result |-> r]

MatrixInit ==
    /\ matA \in MatrixInputs
    /\ matB \in RightMatrices
    /\ matCall = Null

\* mat_mul(matA, matB)
MatMulApply ==
    /\ matCall' = Some(MatrixCall("mat_mul", matA, matB, mat_mul(matA, matB),
                                  IncompatibleDimensions))
    /\ UNCHANGED <<matA, matB, lpVars, now, kVars, uVars, subject, graphVars, appVars>>

\* mat_inv_2x2(matA)
MatInvApply ==
    /\ Rows(matA) = 2
    /\ Cols(matA) = 2
    /\ \E isZero \in ZeroOutcomes(Det2(matA)) :
           matCall' = Some(MatrixCall("mat_inv_2x2", matA, Null,
                                      mat_inv_2x2(matA, isZero), SingularMatrix))
    /\ UNCHANGED <<matA, matB, lpVars, now, kVars, uVars, subject, graphVars, appVars>>

\* mat_cholesky(matA)
MatCholeskyApply ==
    /\ Rows(matA) = Cols(matA)
    /\ matCall' = Some(MatrixCall("mat_cholesky", matA, Null, mat_cholesky(matA),
                                  Null))
    /\ UNCHANGED <<matA, matB, lpVars, now, kVars, uVars, subject, graphVars, appVars>>

\* mat_add(matA, matB)
MatAddApply ==
    /\ matCall' = Some(MatrixCall("mat_add", matA, matB, mat_add(matA, matB),
                                  UndefinedRow))
    /\ UNCHANGED <<matA, matB, lpVars, now, kVars, uVars, subject, graphVars, appVars>>

\* mat_sub(matA, matB)
MatSubApply ==
    /\ matCall' = Some(MatrixCall("mat_sub", matA, matB, mat_sub(matA, matB),
                                  UndefinedRow))
    /\ UNCHANGED <<matA, matB, lpVars, now, kVars, uVars, subject, graphVars, appVars>>

MatrixNext ==
    \/ MatMulApply
    \/ MatInvApply
    \/ MatCholeskyApply
    \/ MatAddApply
    \/ MatSubApply

\* Matrix utilities nobody calls.
MatrixIdle ==
    /\ matA = mat_identity(2)
    /\ matB = mat_identity(2)
    /\ matCall = Null

\* ------------------------------------------------------------------ the app
\* createApp of src/App.ts: the three filter states, the settings subjects and
\* the animation loop that applies the active filters to the pointer position
\* on every frame.
\* showErrorGraph stays false, as createApp sets it, so the subscriber that
\* draws does not update the error graph.

\* The pointer positions the visualization area reports.
AppPositions == {Coordinates(3, 4)}

\* What addNoiseToCoordinates returns for the pointer: a pair of numbers away
\* from it.
AppMeasurements == {Coordinates(0, 0)}

initialFilterStates ==
    [isLowPassActive |-> TRUE, isKalmanActive |-> TRUE, isUKFActive |-> TRUE]

initialLowPassSettings == [alpha |-> Rat(1, 10)]

initialKalmanSettings == [q |-> Rat(1, 10), r |-> Whole(4)]

initialUKFSettings == [q |-> Rat(1, 20), r |-> Whole(4)]

initialNoiseSettings == [enabled |-> TRUE]

initialFilteredPositions == [lowPass |-> Null, kalman |-> Null, ukf |-> Null]

\* The state after createApp has run: the filters initialised from the
\* settings, no pointer position, no estimate.
AppInit ==
    /\ LowPassInit
    /\ kSettings = initialKalmanSettings
    /\ kHeap = initialKalmanHeap(kSettings.q, kSettings.r)
    /\ kalmanFilter = initialKalmanFilter
    /\ kCalls = 0
    /\ kCall = Null
    /\ uSettings = initialUKFSettings
    /\ uHeap = initialUKFHeap(uSettings.q, uSettings.r)
    /\ ukfFilter = initialUKF
    /\ uCalls = 0
    /\ uCall = Null
    /\ now = 0
    /\ mousePosition = Null
    /\ filterStates = initialFilterStates
    /\ noiseSettings = initialNoiseSettings
    /\ filteredPositions = initialFilteredPositions
    /\ subscribed = TRUE
    /\ frames = 0
    /\ changes = 0
    /\ frame = Null

\* An app nobody runs.
AppIdle ==
    /\ mousePosition = Null
    /\ filterStates = initialFilterStates
    /\ noiseSettings = initialNoiseSettings
    /\ filteredPositions = initialFilteredPositions
    /\ subscribed = TRUE
    /\ frames = 0
    /\ changes = 0
    /\ frame = Null

\* mouseMove$.subscribe(coords => mousePosition$.next(coords))
AppMouseMove ==
    /\ mousePosition = Null
    /\ \E coords \in AppPositions : mousePosition' = Some(coords)
    /\ UNCHANGED <<lpVars, now, kVars, uVars, subject, graphVars, matVars, filterStates,
                   noiseSettings, filteredPositions, subscribed, frames, changes, frame>>

\* The Kalman settings change patching Q and R of the state in use.
AppSetKalman_patched ==
    /\ changes < MaxChanges
    /\ changes' = changes + 1
    /\ kSettings' \in KalmanSettings
    /\ kHeap' = [kHeap EXCEPT
                    ![kalmanFilter.Q] = mat_scalar_mul(mat_identity(4), kSettings'.q),
                    ![kalmanFilter.R] = mat_scalar_mul(mat_identity(2), kSettings'.r)]
    /\ kCalls' = 0
    /\ kCall' = Null
    /\ UNCHANGED <<lpVars, now, kalmanFilter, uVars, subject, graphVars, matVars, mousePosition,
                   filterStates, noiseSettings, filteredPositions, subscribed, frames,
                   frame>>

\* handleSettingsChange({kalman}): kalmanSettings$.next, and its subscriber
\* replaces the Kalman state.
AppSetKalman ==
    /\ changes < MaxChanges
    /\ changes' = changes + 1
    /\ kSettings' \in KalmanSettings
    /\ kHeap' = initialKalmanHeap(kSettings'.q, kSettings'.r)
    /\ kalmanFilter' = initialKalmanFilter
    /\ kCalls' = 0
    /\ kCall' = Null
    /\ UNCHANGED <<lpVars, now, uVars, subject, graphVars, matVars, mousePosition, filterStates,
                   noiseSettings, filteredPositions, subscribed, frames, frame>>

\* handleSettingsChange({ukf}): ukfSettings$.next, and its subscriber replaces
\* the UKF state.
AppSetUKF ==
    /\ changes < MaxChanges
    /\ changes' = changes + 1
    /\ uSettings' \in UKFSettings
    /\ uHeap' = initialUKFHeap(uSettings'.q, uSettings'.r)
    /\ ukfFilter' = initialUKF
    /\ uCalls' = 0
    /\ uCall' = Null
    /\ UNCHANGED <<lpVars, now, kVars, subject, graphVars, matVars, mousePosition, filterStates,
                   noiseSettings, filteredPositions, subscribed, frames, frame>>

\* handleSettingsChange({states}): one filter switched on or off.
AppSetStates ==
    /\ changes < MaxChanges
    /\ changes' = changes + 1
    /\ \E f \in DOMAIN filterStates : filterStates' = [filterStates EXCEPT ![f] = ~@]
    /\ UNCHANGED <<lpVars, now, kVars, uVars, subject, graphVars, matVars, mousePosition,
                   noiseSettings, filteredPositions, subscribed, frames, frame>>

\* handleSettingsChange({noise}): the noise switched on or off.
AppSetNoise ==
    /\ changes < MaxChanges
    /\ changes' = changes + 1
    /\ noiseSettings' = [noiseSettings EXCEPT !.enabled = ~@]
    /\ UNCHANGED <<lpVars, now, kVars, uVars, subject, graphVars, matVars, mousePosition,
                   filterStates, filteredPositions, subscribed, frames, frame>>

\* noisyMousePos: the pointer position, perturbed if the noise is enabled.
NoisyMousePos ==
    IF noiseSettings.enabled THEN AppMeasurements ELSE {Get(mousePosition)}

\* if (filterStates.isLowPassActive && noisyMousePos) applyLowPassFilter(...)
AppLowPass(noisyMousePos) ==
    IF filterStates.isLowPassActive
    THEN {[applied |-> TRUE, measurement |-> noisyMousePos,
           r |-> applyLowPassFilter(lowPassFilter, noisyMousePos,
                                    initialLowPassSettings.alpha)]}
    ELSE {[applied |-> FALSE]}

\* if (filterStates.isKalmanActive && noisyMousePos) applyKalmanFilter(...)
AppKalman(noisyMousePos, t) ==
    IF filterStates.isKalmanActive
    THEN {[applied |-> TRUE, measurement |-> noisyMousePos, r |-> r] :
             r \in applyKalmanFilter(kHeap, kalmanFilter, noisyMousePos, t)}
    ELSE {[applied |-> FALSE]}

\* if (filterStates.isUKFActive && noisyMousePos) applyUKF(...), reached
\* unless applyKalmanFilter has thrown.
AppUKF(k, noisyMousePos, t) ==
    IF filterStates.isUKFActive /\ ~(k.applied /\ k.r.threw)
    THEN {[applied |-> TRUE, measurement |-> noisyMousePos, r |-> r] :
             r \in applyUKF(uHeap, ukfFilter, noisyMousePos, t)}
    ELSE {[applied |-> FALSE]}

\* The filter states and the published estimates, by value.
AppSnapshot(lp, kh, kf, uh, uf, published) ==
    [lowPassFilter |-> lp, kalmanFilter |-> kf, kalmanValue |-> KalmanValue(kh, kf),
     ukfFilter |-> uf, ukfValue |-> UKFValue(uh, uf), filteredPositions |-> published]

\* The body of the loop's map callback and the subscriber that publishes its
\* result, lp, k and u being what the three guarded calls did.  An error
\* thrown by a call leaves the callback at once: the assignments before it
\* stay, nothing is published, and the error ends the subscription, which has
\* no error handler.
AppFrameBody(noisyMousePos, t, lp, k, u) ==
    /\ lowPassFilter' = IF lp.applied THEN lp.r[2] ELSE lowPassFilter
    /\ lpCalls' = IF lp.applied THEN lpCalls + 1 ELSE lpCalls
    /\ lpCall' = IF lp.applied
                 THEN Some([filter |-> lowPassFilter, measurement |-> lp.measurement,
                            alpha |-> initialLowPassSettings.alpha,
                            estimate |-> lp.r[1], state |-> lp.r[2]])
                 ELSE lpCall
    /\ lpFirst' = IF lp.applied /\ lpCalls = 0 THEN Some(lp.measurement) ELSE lpFirst
    /\ lpAlphas' = IF lp.applied THEN lpAlphas \cup {initialLowPassSettings.alpha}
                   ELSE lpAlphas
    /\ lpSeen' = IF lp.applied THEN lpSeen \cup {lp.measurement} ELSE lpSeen
    /\ now' = IF k.applied \/ u.applied THEN t ELSE now
    /\ kHeap' = IF k.applied THEN k.r.heap ELSE kHeap
    /\ kalmanFilter' = IF k.applied /\ ~k.r.threw THEN k.r.state ELSE kalmanFilter
    /\ kCalls' = IF k.applied THEN kCalls + 1 ELSE kCalls
    /\ kCall' = IF k.applied THEN Some([k.r EXCEPT !.heap = Null]) ELSE kCall
    /\ uHeap' = IF u.applied THEN u.r.heap ELSE uHeap
    /\ ukfFilter' = IF u.applied /\ ~u.r.threw THEN u.r.state ELSE ukfFilter
    /\ uCalls' = IF u.applied THEN uCalls + 1 ELSE uCalls
    /\ uCall' = IF u.applied THEN Some([u.r EXCEPT !.heap = Null]) ELSE uCall
    /\ subscribed' = ~((k.applied /\ k.r.threw) \/ (u.applied /\ u.r.threw))
    /\ filteredPositions' =
          IF subscribed'
          THEN [lowPass |-> IF lp.applied THEN Some(lp.r[1]) ELSE filteredPositions.lowPass,
                kalman  |-> IF k.applied THEN Some(k.r.estimate)
                            ELSE filteredPositions.kalman,
                ukf     |-> IF u.applied THEN Some(u.r.estimate) ELSE filteredPositions.ukf]
          ELSE filteredPositions
    /\ frame' = Some([processed |-> TRUE,
                      threw |-> ~subscribed',
                      filterStates |-> filterStates,
                      applied |-> [lowPass |-> IF lp.applied THEN <<lp.measurement>> ELSE << >>,
                                   kalman  |-> IF k.applied THEN <<k.measurement>> ELSE << >>,
                                   ukf     |-> IF u.applied THEN <<u.measurement>> ELSE << >>],
                      before |-> AppSnapshot(lowPassFilter, kHeap, kalmanFilter, uHeap,
                                             ukfFilter, filteredPositions),
                      after |-> AppSnapshot(lowPassFilter', kHeap', kalmanFilter', uHeap',
                                            ukfFilter', filteredPositions')])

\* One animation frame: animationFrames().pipe(withLatestFrom(...),
\* filter(mousePos !== null), map(...)).subscribe(...).  Without a pointer
\* position the frame is filtered out.
AppFrame ==
    /\ subscribed
    /\ frames < MaxFrames
    /\ frames' = frames + 1
    /\ IF mousePosition = Null
       THEN /\ frame' = Some([processed |-> FALSE])
            /\ UNCHANGED <<lpVars, now, kHeap, kalmanFilter, kCalls, kCall, uHeap,
                           ukfFilter, uCalls, uCall, filteredPositions, subscribed>>
       ELSE \E noisyMousePos \in NoisyMousePos, t \in {now, now + 15} \cap ClockValues :
               \E lp \in AppLowPass(noisyMousePos), k \in AppKalman(noisyMousePos, t) :
                  \E u \in AppUKF(k, noisyMousePos, t) :
                     AppFrameBody(noisyMousePos, t, lp, k, u)
    /\ UNCHANGED <<kSettings, uSettings, subject, graphVars, matVars, mousePosition, filterStates,
                   noiseSettings, changes>>

AppNext ==
    \/ AppMouseMove
    \/ AppSetKalman
    \/ AppSetUKF
    \/ AppSetStates
    \/ AppSetNoise
    \/ AppFrame

\* ---------------------------------------------------------- the error graph
\* createErrorGraph and updateErrorGraph of src/components/ErrorGraph.ts: the
\* history of the errors of the three filters that the graph draws.

\* canvas._maxHistoryLength = 200
maxHistoryLength == 200

\* Math.sqrt(dx * dx + dy * dy)
calculateDistance(p1, p2) ==
    LET dx == Sub(p1.x, p2.x)
        dy == Sub(p1.y, p2.y)
    IN  Sqrt(Add(Mul(dx, dx), Mul(dy, dy)))

\* The errors of one call: the distance of each estimate from the actual
\* position, 0 for a filter that is switched off or has no estimate.
GraphErrors(state) ==
    LET Error(active, estimate) ==
            IF active /\ estimate # Null
            THEN calculateDistance(Get(state.actualPosition), Get(estimate))
            ELSE Zero
    IN  [lowPass |-> Error(state.filterStates.isLowPassActive, state.filteredPositions.lowPass),
         kalman  |-> Error(state.filterStates.isKalmanActive, state.filteredPositions.kalman),
         ukf     |-> Error(state.filterStates.isUKFActive, state.filteredPositions.ukf)]

\* The history after a call that removes the newest entry when the history
\* is too long.
updateErrorGraph_pops(history, state) ==
    IF state.actualPosition # Null
    THEN IF Len(history) + 1 > maxHistoryLength THEN history
         ELSE Append(history, GraphErrors(state))
    ELSE history

\* The history after updateErrorGraph(canvas, state): errorHistory.push(errors)
\* and, if errorHistory.length > maxHistoryLength, errorHistory.shift().
updateErrorGraph(history, state) ==
    IF state.actualPosition # Null
    THEN IF Len(history) + 1 > maxHistoryLength
         THEN Tail(Append(history, GraphErrors(state)))
         ELSE Append(history, GraphErrors(state))
    ELSE history

\* The states the graph is updated with: the pointer moves one unit to the
\* right at every call that knows its position, the low-pass estimate stays
\* at the origin, the Kalman filter has no estimate yet and the UKF is
\* switched off.
GraphStates ==
    LET at(actualPosition) ==
            [actualPosition |-> actualPosition,
             filteredPositions |-> [lowPass |-> Some(Coordinates(0, 0)), kalman |-> Null,
                                    ukf |-> Some(Coordinates(0, 0))],
             filterStates |-> [isLowPassActive |-> TRUE, isKalmanActive |-> TRUE,
                               isUKFActive |-> FALSE]]
    IN  {at(Null)} \cup
        (IF graphCalls < MaxGraphCalls THEN {at(Some(Coordinates(graphCalls + 1, 0)))}
         ELSE {})

\* createErrorGraph: the graph before its first update.
GraphInit ==
    /\ errorHistory = << >>
    /\ graphCalls = 0
    /\ graphCall = Null

\* updateErrorGraph(canvas, state)
GraphUpdate ==
    /\ \E state \in GraphStates :
          /\ errorHistory' = updateErrorGraph(errorHistory, state)
          /\ graphCalls' = IF state.actualPosition # Null THEN graphCalls + 1 ELSE graphCalls
          /\ graphCall' = Some([state |-> state, before |-> errorHistory])
    /\ UNCHANGED <<lpVars, now, kVars, uVars, subject, matVars, appVars>>

\* ---------------------------------------------------------- specifications

\* The matrix utilities and their caller.
InitMatrix ==
    /\ MatrixInit /\ LowPassInit /\ now = 0 /\ KalmanIdle /\ UKFIdle /\ AppIdle /\ GraphInit
    /\ subject = "matrix"

SpecMatrix == InitMatrix /\ [][MatrixNext]_vars

\* The low-pass filter and its caller.
InitLowPass ==
    /\ LowPassInit /\ now = 0 /\ KalmanIdle /\ UKFIdle /\ MatrixIdle /\ AppIdle /\ GraphInit
    /\ subject = "lowPass"

SpecLowPass == InitLowPass /\ [][LowPassNext]_vars

\* The Kalman filter and its caller.
InitKalman ==
    /\ KalmanInit /\ now \in {0, 15} /\ LowPassInit /\ UKFIdle /\ MatrixIdle
    /\ AppIdle /\ GraphInit
    /\ subject = "kalman"

SpecKalman == InitKalman /\ [][KalmanNext]_vars

\* The unscented Kalman filter and its caller.
InitUKF ==
    /\ UKFInit /\ now \in {0, 15} /\ LowPassInit /\ KalmanIdle /\ MatrixIdle
    /\ AppIdle /\ GraphInit
    /\ subject = "ukf"

SpecUKF == InitUKF /\ [][UKFNext]_vars

\* A caller that exercises one of the two Kalman filters.
InitFilters ==
    /\ LowPassInit
    /\ MatrixIdle
    /\ AppIdle /\ GraphInit
    /\ now \in {0, 15}
    /\ subject \in {"kalman", "ukf"}
    /\ IF subject = "kalman" THEN KalmanInit /\ UKFIdle ELSE KalmanIdle /\ UKFInit

FiltersNext ==
    \/ subject = "kalman" /\ KalmanNext
    \/ subject = "ukf" /\ UKFNext

SpecFilters == InitFilters /\ [][FiltersNext]_vars

\* The app: its user, its animation frames and its three filters.
InitApp == AppInit /\ MatrixIdle /\ GraphInit /\ subject = "app"

SpecApp == InitApp /\ [][AppNext]_vars

\* The Kalman filter following a target that stands still.
InitTrack ==
    /\ TrackInit /\ now \in {0, 15} /\ LowPassInit /\ UKFIdle /\ MatrixIdle
    /\ AppIdle /\ GraphInit
    /\ subject = "stationary"

SpecTrack == InitTrack /\ [][TrackApply]_vars

\* The error graph and the app's updates of it.
InitGraph ==
    /\ GraphInit /\ LowPassInit /\ now = 0 /\ KalmanIdle /\ UKFIdle /\ MatrixIdle
    /\ AppIdle
    /\ subject = "errorGraph"

SpecGraph == InitGraph /\ [][GraphUpdate]_vars

\* ------------------------------------------------- claims on the Kalman filters

\* C5: the first applyKalmanFilter on a state from initialKalmanFilter(q, r)
\* returns the measurement itself as the estimate and a state with
\* firstRun = false, for every measurement.
C5_FirstKalmanCallReturnsMeasurement ==
    (kCall # Null /\ kCalls = 1) =>
        /\ Get(kCall).call.filter = initialKalmanFilter
        /\ ~Get(kCall).threw
        /\ Get(kCall).estimate = Get(kCall).call.measurement
        /\ Get(kCall).state.firstRun = FALSE
        /\ kalmanFilter.firstRun = FALSE

C5_Witness ==
    /\ kCall # Null
    /\ kCalls = 1
    /\ kSettings = [q |-> One, r |-> One]
    /\ Get(kCall).call.measurement = Coordinates(3, 4)
    /\ Get(kCall).estimate = Coordinates(3, 4)

\* C6: in applyKalmanFilter and applyUKF dt is 1 on a call of a state with no
\* prior timestamp, and on every later call dt is (now - lastTimestamp) / 15,
\* whatever clock value the earlier call recorded.
C6_DtIsElapsedTime ==
    /\ kCall # Null =>
          Get(kCall).call.dt =
              IF Get(kCall).call.filter.lastTimestamp = Null THEN One
              ELSE Rat(Get(kCall).call.currentTimestamp
                           - Get(Get(kCall).call.filter.lastTimestamp), 15)
    /\ uCall # Null =>
          Get(uCall).call.dt =
              IF Get(uCall).call.filter.lastTimestamp = Null THEN One
              ELSE Rat(Get(uCall).call.currentTimestamp
                           - Get(Get(uCall).call.filter.lastTimestamp), 15)

\* A later call, 30 ms after a first call at clock value 0, that ran with dt = 1.
C6_Witness ==
    /\ kCall # Null
    /\ Get(kCall).call.filter.lastTimestamp = Some(0)
    /\ Get(kCall).call.currentTimestamp = 30
    /\ Get(kCall).call.dt = One

\* C7: applyKalmanFilter does not mutate the filter passed to it: every field
\* of the input state has the same value after the call as before it.
C7_KalmanInputNotMutated ==
    kCall # Null =>
        KalmanValue(kHeap, Get(kCall).call.filter) = Get(kCall).call.before

\* A call that returned and left A[0][2] of the state passed in changed from 1 to 2.
C7_Witness ==
    /\ kCall # Null
    /\ ~Get(kCall).threw
    /\ Get(kCall).call.before.A[1][3] = One
    /\ kHeap[Get(kCall).call.filter.A][1][3] = Whole(2)

\* C8: applyUKF does not mutate the filter passed to it: x, P, lastTimestamp
\* and lastMeasurement of the input state have the same values after the call
\* as before it, and the returned state does not hold the array x of the
\* input state, which later calls write to.
C8_UKFInputNotMutated ==
    uCall # Null =>
        /\ UKFValue(uHeap, Get(uCall).call.filter).x = Get(uCall).call.before.x
        /\ UKFValue(uHeap, Get(uCall).call.filter).P = Get(uCall).call.before.P
        /\ UKFValue(uHeap, Get(uCall).call.filter).lastTimestamp
               = Get(uCall).call.before.lastTimestamp
        /\ UKFValue(uHeap, Get(uCall).call.filter).lastMeasurement
               = Get(uCall).call.before.lastMeasurement
        /\ ~Get(uCall).threw => Get(uCall).state.x # Get(uCall).call.filter.x

\* A first call that wrote the measurement into the x of the state passed in
\* and returned a state holding that same array.
C8_Witness ==
    /\ uCall # Null
    /\ ~Get(uCall).cycle
    /\ Get(uCall).call.before.x[1][1] = Zero
    /\ uHeap[Get(uCall).call.filter.x][1][1] = Whole(3)
    /\ Get(uCall).state.x = Get(uCall).call.filter.x

\* C9: applyKalmanFilter raises the singular-matrix error, returning no
\* estimate and no state, exactly when det(S) is 0; applyUKF raises it, in
\* the same way, whenever det(S) is 0.
C9_SingularExactlyAtZeroDeterminant ==
    /\ kCall # Null =>
          /\ Get(kCall).threw => /\ TRUE \in ZeroOutcomes(Det2(Get(kCall).call.S))
                                 /\ Get(kCall).error = SingularMatrix
                                 /\ DOMAIN Get(kCall) \cap {"estimate", "state"} = {}
          /\ ~Get(kCall).threw => /\ FALSE \in ZeroOutcomes(Det2(Get(kCall).call.S))
                                  /\ {"estimate", "state"} \subseteq DOMAIN Get(kCall)
    /\ (uCall # Null /\ Get(uCall).cycle /\ Det2(Get(uCall).call.S) = Zero) =>
          /\ Get(uCall).threw
          /\ Get(uCall).error = SingularMatrix
          /\ DOMAIN Get(uCall) \cap {"estimate", "state"} = {}

\* A second Kalman call in the millisecond of the first, without noise: S = 0.
C9_Witness ==
    /\ kCall # Null
    /\ Get(kCall).threw
    /\ Get(kCall).call.dt = Zero
    /\ Get(kCall).call.S = Zeros(2, 2)

\* C10: when applyKalmanFilter or applyUKF raises an error, the filter state
\* passed in is exactly as it was before the call.
C10_FailedCallLeavesInput ==
    /\ (kCall # Null /\ Get(kCall).threw) =>
          KalmanValue(kHeap, Get(kCall).call.filter) = Get(kCall).call.before
    /\ (uCall # Null /\ Get(uCall).threw) =>
          UKFValue(uHeap, Get(uCall).call.filter) = Get(uCall).call.before

\* A Kalman call that raised the error after writing dt = 0 into A[0][2] of
\* the state passed in, which the caller keeps.
C10_Witness ==
    /\ kCall # Null
    /\ Get(kCall).threw
    /\ Get(kCall).call.before.A[1][3] = One
    /\ KalmanValue(kHeap, kalmanFilter).A[1][3] = Zero
    /\ kalmanFilter = Get(kCall).call.filter

\* ---------------------------------------------- claims on the matrix utilities

\* C11: mat_mul(A, B) raises the incompatible-dimensions error exactly when
\* the number of columns of A differs from the number of rows of B, and
\* raises no error otherwise: it returns a matrix.
C11_IncompatibleExactlyOnMismatch ==
    (matCall # Null /\ Get(matCall).fn = "mat_mul") =>
        /\ Get(matCall).threw <=> Cols(Get(matCall).A) # Rows(Get(matCall).B)
        /\ Get(matCall).threw => Get(matCall).error = IncompatibleDimensions
        /\ ~Get(matCall).threw => Len(Get(matCall).result) = Rows(Get(matCall).A)

\* The 2x2 matrix times the 3x3 matrix of the test.
C11_Witness ==
    /\ matCall # Null
    /\ Get(matCall).fn = "mat_mul"
    /\ Get(matCall).A = WholeMatrix(<<<<1, 2>>, <<3, 4>>>>)
    /\ Get(matCall).B = WholeMatrix(<<<<1, 2, 3>>, <<4, 5, 6>>, <<7, 8, 9>>>>)
    /\ Get(matCall).threw

\* C12: for compatible A (r x k) and B (k x c), mat_mul returns an r x c
\* matrix whose entry (i, j) is the sum over k of A[i][k] * B[k][j];
\* [[1,2],[3,4]] times [[5,6],[7,8]] is [[19,22],[43,50]], and
\* mat_mul(A, mat_identity(n)) is A for square A.
C12_ProductEntries ==
    (matCall # Null /\ Get(matCall).fn = "mat_mul" /\ ~Get(matCall).threw) =>
        LET A == Get(matCall).A
            B == Get(matCall).B
            C == Get(matCall).result
            term(i, j, k) == Mul(A[i][k], B[k][j])
        IN  /\ Cols(A) \in 1..3
            /\ Len(C) = Rows(A)
            /\ \A i \in 1..Rows(A) :
                  /\ Len(C[i]) = Cols(B)
                  /\ \A j \in 1..Cols(B) :
                        C[i][j] = IF Cols(A) = 1 THEN term(i, j, 1)
                                  ELSE IF Cols(A) = 2
                                  THEN Add(term(i, j, 1), term(i, j, 2))
                                  ELSE Add(Add(term(i, j, 1), term(i, j, 2)),
                                           term(i, j, 3))
            /\ (/\ A = WholeMatrix(<<<<1, 2>>, <<3, 4>>>>)
                /\ B = WholeMatrix(<<<<5, 6>>, <<7, 8>>>>)) =>
                  C = WholeMatrix(<<<<19, 22>>, <<43, 50>>>>)
            /\ (Rows(A) = Cols(A) /\ B = mat_identity(Rows(A))) => C = A

\* The product of the example.
C12_Witness ==
    /\ matCall # Null
    /\ Get(matCall).fn = "mat_mul"
    /\ Get(matCall).A = WholeMatrix(<<<<1, 2>>, <<3, 4>>>>)
    /\ Get(matCall).B = WholeMatrix(<<<<5, 6>>, <<7, 8>>>>)
    /\ ~Get(matCall).threw
    /\ Get(matCall).result[2][2] = Whole(50)

\* C13: mat_inv_2x2(A) raises the singular-matrix error exactly when
\* A[0][0] * A[1][1] - A[0][1] * A[1][0] is 0, without tolerance, as for
\* [[1,2],[2,4]], and returns a 2x2 matrix for every other 2x2 argument.
C13_SingularExactlyOnZeroDet ==
    (matCall # Null /\ Get(matCall).fn = "mat_inv_2x2") =>
        LET A == Get(matCall).A
        IN  /\ Get(matCall).threw <=>
                  Sub(Mul(A[1][1], A[2][2]), Mul(A[1][2], A[2][1])) = Zero
            /\ Get(matCall).threw => Get(matCall).error = SingularMatrix
            /\ ~Get(matCall).threw =>
                  /\ Len(Get(matCall).result) = 2
                  /\ \A i \in 1..2 : Len(Get(matCall).result[i]) = 2
            /\ A = WholeMatrix(<<<<1, 2>>, <<2, 4>>>>) => Get(matCall).threw

\* The singular matrix of the test.
C13_Witness ==
    /\ matCall # Null
    /\ Get(matCall).fn = "mat_inv_2x2"
    /\ Get(matCall).A = WholeMatrix(<<<<1, 2>>, <<2, 4>>>>)
    /\ Get(matCall).threw
    /\ Get(matCall).error = SingularMatrix

C15_CholeskyFactorReproduces ==
    (matCall # Null /\ Get(matCall).fn = "mat_cholesky") =>
        LET A == Get(matCall).A
            L == Get(matCall).result
            n == Len(A)
            positiveDefinite ==
                \/ n = 1 /\ Sign(A[1][1]) = 1
                \/ /\ n = 2
                   /\ A[1][2] = A[2][1]
                   /\ Sign(A[1][1]) = 1
                   /\ Sign(Sub(Mul(A[1][1], A[2][2]), Mul(A[1][2], A[2][1]))) = 1
                \/ A \in { mat_identity(3),
                            WholeMatrix(<<<<4, 2, 1>>, <<2, 5, 3>>, <<1, 3, 6>>>>),
                            WholeMatrix(<<<<4, 2, 2>>, <<2, 5, 3>>, <<2, 3, 6>>>>) }
            exact == \A i, j \in 1..n : Tracked(L[i][j])
        IN  positiveDefinite =>
                /\ ~Get(matCall).threw
                /\ \A i, j \in 1..n : i < j => L[i][j] = Zero
                /\ \A i \in 1..n : L[i][i] # Zero
                /\ exact => mat_mul(L, mat_transpose(L)) = A
                /\ A = WholeMatrix(<<<<4, 2>>, <<2, 5>>>>) =>
                      L = WholeMatrix(<<<<2, 0>>, <<1, 2>>>>)
                /\ A = mat_identity(n) => L = mat_identity(n)

\* The matrix of the test and its factor.
C15_Witness ==
    /\ matCall # Null
    /\ Get(matCall).fn = "mat_cholesky"
    /\ Get(matCall).A = WholeMatrix(<<<<4, 2>>, <<2, 5>>>>)
    /\ ~Get(matCall).threw
    /\ Get(matCall).result = WholeMatrix(<<<<2, 0>>, <<1, 2>>>>)

\* C16: mat_cholesky never raises and never divides by zero, for any square
\* argument: a diagonal radicand that is not positive gives the diagonal entry
\* 0, and every entry below a zero pivot L[j][j] in column j is left at 0.
C16_CholeskyNeverFails ==
    (matCall # Null /\ Get(matCall).fn = "mat_cholesky") =>
        LET A == Get(matCall).A
            L == Get(matCall).result
            n == Len(A)
            radicand(j) == Sub(A[j][j], CholeskySum(L, j, j, 1, Zero))
        IN  /\ ~Get(matCall).threw
            /\ Len(L) = n
            /\ \A i \in 1..n :
                  /\ Len(L[i]) = n
                  /\ \A j \in 1..n : Finite(L[i][j])
            /\ \A j \in 1..n :
                  /\ (Tracked(radicand(j)) /\ Sign(radicand(j)) <= 0) => L[j][j] = Zero
                  /\ L[j][j] = Zero => \A i \in (j + 1)..n : L[i][j] = Zero

\* A first pivot of 0 with nonzero entries below it, and a negative radicand
\* at the end.
C16_Witness ==
    /\ matCall # Null
    /\ Get(matCall).fn = "mat_cholesky"
    /\ Get(matCall).A = WholeMatrix(<<<<0, 1, 1>>, <<1, 1, 2>>, <<1, 2, -3>>>>)
    /\ ~Get(matCall).threw
    /\ Get(matCall).result = WholeMatrix(<<<<0, 0, 0>>, <<0, 1, 0>>, <<0, 2, 0>>>>)

\* ------------------------------------- claims on the unscented Kalman filter

C18_FirstUKFCallReturnsMeasurement ==
    (uCall # Null /\ uCalls = 1) =>
        LET r == Get(uCall)
        IN  /\ r.call.filter = initialUKF
            /\ r.call.filter.lastMeasurement = Null
            /\ ~r.cycle
            /\ ~r.threw
            /\ r.estimate = r.call.measurement
            /\ uHeap[r.state.x] = Column(<<r.call.measurement.x, r.call.measurement.y,
                                           Zero, Zero, Zero>>)
            /\ uHeap[r.state.P] = mat_identity(5)
            /\ uHeap[r.state.P] = r.call.before.P
            /\ r.state.lastMeasurement = Some(r.call.measurement)
            /\ ukfFilter = r.state

\* The first call with the measurement (3, 4).
C18_Witness ==
    /\ uCall # Null
    /\ uCalls = 1
    /\ Get(uCall).call.measurement = Coordinates(3, 4)
    /\ Get(uCall).estimate = Coordinates(3, 4)
    /\ uHeap[ukfFilter.x] = Column(<<Whole(3), Whole(4), Zero, Zero, Zero>>)
    /\ ukfFilter.lastMeasurement = Some(Coordinates(3, 4))

\* C19: on the second applyUKF call of a filter, whenever the state's speed
\* is still exactly 0, the speed is set to |delta position| / dt and the
\* heading to atan2(dy, dx) of the difference between the first two
\* measurements before sigma points are generated, for every pair of call
\* timestamps; so the speed used is greater than 0 when the two measurements
\* differ.
C19_BootstrapOnSecondCall ==
    (uCall # Null /\ uCalls = 2 /\ Get(uCall).call.before.x[3][1] = Zero) =>
        LET call  == Get(uCall).call
            first == Get(call.filter.lastMeasurement)
            dx    == Sub(call.measurement.x, first.x)
            dy    == Sub(call.measurement.y, first.y)
            x     == call.sigma_points[1]
        IN  /\ x[3][1] = Div(Sqrt(Add(Mul(dx, dx), Mul(dy, dy))), call.dt)
            /\ x[4][1] = Atan2(dy, dx)
            /\ call.measurement # first => Sign(x[3][1]) = 1

\* The first call at clock value 0 and the second at 15 with another
\* measurement: the sigma points are generated around a speed of 0.
C19_Witness ==
    /\ uCall # Null
    /\ uCalls = 2
    /\ Get(uCall).call.filter.lastTimestamp = Some(0)
    /\ Get(uCall).call.currentTimestamp = 15
    /\ Get(uCall).call.filter.lastMeasurement = Some(Coordinates(0, 0))
    /\ Get(uCall).call.measurement = Coordinates(3, 4)
    /\ Get(uCall).call.sigma_points[1][3][1] = Zero
    /\ Get(uCall).call.sigma_points[1][4][1] = Zero

\* C20: every applyUKF call that returns, first call or full cycle, yields a
\* state whose lastTimestamp is the clock value read in that call and whose
\* lastMeasurement is the measurement passed to that call.
C20_ReturnedStateRecordsCall ==
    (uCall # Null /\ ~Get(uCall).threw) =>
        /\ Get(uCall).state.lastTimestamp = Some(now)
        /\ Get(uCall).call.currentTimestamp = now
        /\ Get(uCall).state.lastMeasurement = Some(Get(uCall).call.measurement)
        /\ ukfFilter = Get(uCall).state

\* A full cycle at clock value 30 with the measurement (3, 4), after a first
\* call with (0, 0).
C20_Witness ==
    /\ uCall # Null
    /\ Get(uCall).cycle
    /\ ~Get(uCall).threw
    /\ now = 30
    /\ Get(uCall).call.filter.lastMeasurement = Some(Coordinates(0, 0))
    /\ Get(uCall).call.measurement = Coordinates(3, 4)
    /\ ukfFilter.lastTimestamp = Some(30)
    /\ ukfFilter.lastMeasurement = Some(Coordinates(3, 4))

\* ------------------------------------------------------ claims on the app

\* C21: in the app the Kalman state's Q and R are q*I4 and r*I2 of the current
\* Kalman settings and the UKF state's q terms and R are those of the current
\* UKF settings at every moment; a state no call has used since the last
\* change of its settings is the freshly initialised one, and the first call
\* after the change receives that fresh state.
C21_SettingsReinitialise ==
    LET kFresh == KalmanValue(initialKalmanHeap(kSettings.q, kSettings.r),
                              initialKalmanFilter)
        uFresh == UKFValue(initialUKFHeap(uSettings.q, uSettings.r), initialUKF)
    IN  subject = "app" =>
          /\ kHeap[kalmanFilter.Q] = mat_scalar_mul(mat_identity(4), kSettings.q)
          /\ kHeap[kalmanFilter.R] = mat_scalar_mul(mat_identity(2), kSettings.r)
          /\ uHeap[ukfFilter.Q][3][3] = uSettings.q
          /\ uHeap[ukfFilter.Q][5][5] = uSettings.q
          /\ uHeap[ukfFilter.R] = mat_scalar_mul(mat_identity(2), uSettings.r)
          /\ kCalls = 0 => KalmanValue(kHeap, kalmanFilter) = kFresh
          /\ uCalls = 0 => UKFValue(uHeap, ukfFilter) = uFresh
          /\ kCalls = 1 => /\ Get(kCall).call.before = kFresh
                           /\ Get(kCall).call.before.firstRun
          /\ uCalls = 1 => /\ Get(uCall).call.before = uFresh
                           /\ ~Get(uCall).cycle

\* The Kalman settings were changed to q = r = 0 and the second frame applied
\* the filter, its first call since the change.
C21_Witness ==
    /\ subject = "app"
    /\ changes = 1
    /\ frames = 2
    /\ kSettings = [q |-> Zero, r |-> Zero]
    /\ kCalls = 1
    /\ Get(frame).processed
    /\ Get(frame).applied.kalman # << >>

\* ---------------------------------------- claims on the stationary target

\* C22: for a Kalman filter fed the same measurement on every call, the
\* estimate of the tenth and of every later call is within 1 unit of that
\* measurement in both coordinates, whatever the time gaps between the calls.
C22_StationaryTargetTracked ==
    (subject = "stationary" /\ kCalls >= 10 /\ ~Get(kCall).threw) =>
        LET estimate == Get(kCall).estimate
            target   == Get(kCall).call.measurement
        IN  /\ GtOutcomes(Abs(Sub(estimate.x, target.x)), One) = {FALSE}
            /\ GtOutcomes(Abs(Sub(estimate.y, target.y)), One) = {FALSE}

\* The tenth call for the target (100, 100) with q = 0.1 and r = 1 returned,
\* 15 ms after the ninth.
C22_Witness ==
    /\ subject = "stationary"
    /\ kCalls = 10
    /\ ~Get(kCall).threw
    /\ kSettings = [q |-> Rat(1, 10), r |-> One]
    /\ Get(kCall).call.measurement = Coordinates(100, 100)
    /\ ~Get(kCall).call.before.firstRun
    /\ Get(kCall).call.dt = One

\* ------------------------------------------ claims on the fixed parameters

\* C23: every applyKalmanFilter call that returns yields a state with the H,
\* Q and R of the state passed in, and every applyUKF call that returns yields
\* a state with the Q, R, n, m, alpha, beta, kappa, lambda, weights_m and
\* weights_c of the state passed in: the same arrays, holding the same values.
C23_ParametersFixed ==
    /\ (kCall # Null /\ ~Get(kCall).threw) =>
           LET passed   == Get(kCall).call.filter
               before   == Get(kCall).call.before
               returned == Get(kCall).state
           IN  /\ \A f \in {"H", "Q", "R"} :
                      /\ returned[f] = passed[f]
                      /\ kHeap[returned[f]] = before[f]
               /\ kalmanFilter = returned
    /\ (uCall # Null /\ ~Get(uCall).threw) =>
           LET passed   == Get(uCall).call.filter
               before   == Get(uCall).call.before
               returned == Get(uCall).state
           IN  /\ \A f \in {"Q", "R", "weights_m", "weights_c"} :
                      /\ returned[f] = passed[f]
                      /\ uHeap[returned[f]] = before[f]
               /\ \A f \in {"n", "m", "alpha", "beta", "kappa", "lambda"} :
                      returned[f] = passed[f]
               /\ ukfFilter = returned

\* A full applyUKF cycle returned a state, its weights those of initialUKF.
C23_Witness ==
    /\ subject = "ukf"
    /\ uCall # Null
    /\ Get(uCall).cycle
    /\ ~Get(uCall).threw
    /\ uHeap[ukfFilter.weights_m] = initialUKFWeights.weights_m
    /\ uHeap[ukfFilter.Q] = initialUKFQ(uSettings.q)

LastP_sqrt ==
    LET before == Get(uCall).call.before
    IN  mat_cholesky(mat_scalar_mul(before.P, Add(Whole(before.n), before.lambda)))

\* C26: a full applyUKF cycle generates exactly 2n+1 = 11 sigma points: point
\* 0 is the state x, and for i = 1..n points i and i+n are x plus and x minus
\* column i of the Cholesky factor of (n+lambda)*P; when that column is zero,
\* both points equal x.
C26_SigmaPoints ==
    (uCall # Null /\ Get(uCall).cycle) =>
        \E call \in {Get(uCall).call}, P_sqrt \in {LastP_sqrt} :
           \E x \in {UKFBootstrap(call.before.x, call.filter, call.measurement, call.dt)},
              points \in {call.sigma_points}, n \in {call.filter.n} :
              /\ Len(points) = 2 * n + 1
              /\ Len(points) = 11
              /\ points[1] = x
              /\ \A i \in 1..n :
                     /\ \A r \in 1..n :
                            /\ points[i + 1][r][1] = Add(x[r][1], P_sqrt[r][i])
                            /\ points[i + 1 + n][r][1] = Sub(x[r][1], P_sqrt[r][i])
                     /\ (\A r \in 1..n : P_sqrt[r][i] = Zero) =>
                            /\ points[i + 1] = x
                            /\ points[i + 1 + n] = x

\* A full cycle on a state whose P has no positive pivot, after a cycle on
\* the initial state: the first column of the Cholesky factor is zero and
\* points 1 and 6 are the state x.
C26_Witness ==
    /\ uCall # Null
    /\ Get(uCall).cycle
    /\ uCalls = 3
    /\ \E P_sqrt \in {LastP_sqrt} : \A r \in 1..5 : P_sqrt[r][1] = Zero
    /\ Get(uCall).call.sigma_points[2] = Get(uCall).call.sigma_points[1]
    /\ Get(uCall).call.sigma_points[7] = Get(uCall).call.sigma_points[1]

\* ------------------------------------------- claims on mat_add and mat_sub

\* C27 as stated: mat_add and mat_sub called with operands of different
\* dimensions raise no error and return a matrix with the shape of the first
\* operand.
C27_MismatchNeverRaises ==
    (/\ matCall # Null
     /\ Get(matCall).fn \in {"mat_add", "mat_sub"}
     /\ <<Rows(Get(matCall).A), Cols(Get(matCall).A)>>
           # <<Rows(Get(matCall).B), Cols(Get(matCall).B)>>) =>
        /\ ~Get(matCall).threw
        /\ Rows(Get(matCall).result) = Rows(Get(matCall).A)
        /\ \A i \in 1..Rows(Get(matCall).A) :
               Len(Get(matCall).result[i]) = Len(Get(matCall).A[i])

\* C27, amended: mat_add and mat_sub perform no dimension check.  Called with
\* operands of different dimensions they raise a TypeError exactly when the
\* second operand has fewer rows than the first; otherwise they return a
\* matrix with the shape of the first operand, whose entries are the sums (the
\* differences) of the entries at the same place and NaN where the row of the
\* second operand is too short.
C27_MismatchRaisesOnMissingRow ==
    (/\ matCall # Null
     /\ Get(matCall).fn \in {"mat_add", "mat_sub"}
     /\ <<Rows(Get(matCall).A), Cols(Get(matCall).A)>>
           # <<Rows(Get(matCall).B), Cols(Get(matCall).B)>>) =>
        LET A == Get(matCall).A
            B == Get(matCall).B
        IN  /\ Get(matCall).threw <=> Rows(B) < Rows(A)
            /\ Get(matCall).threw => Get(matCall).error = UndefinedRow
            /\ ~Get(matCall).threw =>
                  /\ Rows(Get(matCall).result) = Rows(A)
                  /\ \A i \in 1..Rows(A) :
                        /\ Len(Get(matCall).result[i]) = Cols(A)
                        /\ \A j \in 1..Cols(A) :
                               Get(matCall).result[i][j] =
                                  IF j > Cols(B) THEN NaN
                                  ELSE IF Get(matCall).fn = "mat_add"
                                       THEN Add(A[i][j], B[i][j])
                                       ELSE Sub(A[i][j], B[i][j])

\* mat_add of a 2x2 matrix and a 3x2 matrix returned a 2x2 matrix.
C27_Witness ==
    /\ matCall # Null
    /\ Get(matCall).fn = "mat_add"
    /\ ~Get(matCall).threw
    /\ Rows(Get(matCall).A) = 2
    /\ Cols(Get(matCall).A) = 2
    /\ Rows(Get(matCall).B) = 3
    /\ Cols(Get(matCall).B) = 2
    /\ Rows(Get(matCall).result) = 2

\* ------------------------------------------ claims on the velocity bootstrap

\* C28: after any sequence of applyUKF calls with finite measurements and
\* non-decreasing clock values the velocity initialisation has not divided by
\* a dt of zero, and the speed in the state is a finite number.
C28_BootstrapSpeedFinite ==
    (uCall # Null /\ Get(uCall).cycle) =>
        /\ Finite(Get(uCall).call.sigma_points[1][3][1])
        /\ Finite(uHeap[Get(uCall).call.filter.x][3][1])

\* Two calls at the clock value 15, with the measurements (0, 0) and (3, 4):
\* dt is 0 and the speed 5 / 0 is Infinity.
C28_Witness ==
    /\ uCall # Null
    /\ Get(uCall).cycle
    /\ uCalls = 2
    /\ Get(uCall).call.filter.lastTimestamp = Some(15)
    /\ Get(uCall).call.currentTimestamp = 15
    /\ Get(uCall).call.dt = Zero
    /\ Get(uCall).call.filter.lastMeasurement = Some(Coordinates(0, 0))
    /\ Get(uCall).call.measurement = Coordinates(3, 4)
    /\ Get(uCall).call.sigma_points[1][3][1] = PInf

\* ------------------------------------- claims on the range of the low-pass

C30_HistoryBounded ==
    /\ Len(errorHistory) <= 200
    /\ graphCall # Null =>
          LET state  == Get(graphCall).state
              before == Get(graphCall).before
          IN  IF state.actualPosition = Null
              THEN errorHistory = before
              ELSE /\ errorHistory[Len(errorHistory)] = GraphErrors(state)
                   /\ IF Len(before) < 200
                      THEN /\ Len(errorHistory) = Len(before) + 1
                           /\ \A i \in 1..Len(before) : errorHistory[i] = before[i]
                      ELSE /\ Len(errorHistory) = 200
                           /\ \A i \in 1..199 : errorHistory[i] = before[i + 1]

\* The 201st call with a known position: the history held 200 entries, the
\* oldest of them the error 1 of the first call, and holds 200 after it, the
\* oldest now the error 2.
C30_Witness ==
    /\ graphCall # Null
    /\ graphCalls = 201
    /\ Get(graphCall).state.actualPosition = Some(Coordinates(201, 0))
    /\ Len(Get(graphCall).before) = 200
    /\ Get(graphCall).before[1].lowPass = Whole(1)
    /\ Len(errorHistory) = 200
    /\ errorHistory[1].lowPass = Whole(2)
    /\ errorHistory[200].lowPass = Whole(201)

=============================================================================
